---- MODULE Spec2Model ----
(***************************************************************************)
(* css-pruner: the usage classifier (CSSPruner.analyzeUsage), the rule     *)
(* extractor (CSSParser.parseCSSContent) and the removal engine            *)
(* (CSSPruner.clean / removeUnusedSelectors / ...StringBased).             *)
(*                                                                         *)
(* Text is modelled at the character level: a string is a sequence of     *)
(* one-character strings, so that the regular expressions and the          *)
(* substring arithmetic of the code are computed, not assumed.             *)
(***************************************************************************)
EXTENDS Integers, Sequences, FiniteSets, TLC

VARIABLES
    files,          \* path -> content of the stylesheet on disk
    input,          \* path -> content before the first clean (history)
    before,         \* path -> content when the current clean() started (history)
    backups,        \* sequence of [path, content] backup files written
    cssFiles,       \* config.cssFiles
    whitelist,      \* config.whitelist
    blacklist,      \* config.blacklist
    dryRun,         \* config.dryRun
    usedClasses,    \* what scanSourceDirectories returns for the source tree
    cssRules,       \* the records of the last parseCSSFiles
    analysisResult, \* the last AnalysisResult
    unusedByFile,   \* clean(): the grouping map, in insertion order
    idx,            \* clean(): position in the per-file loop
    cleanResult,    \* the last CleanResult (partial while clean() runs)
    pc,             \* position of the running operation
    runs,           \* number of clean() calls completed
    sourceFiles,    \* the source files of config.sourceDirectories, in scan order
    sourceClasses,  \* source path -> the class names its content yields
    faults,         \* the file system and parser calls that raise: <<call, path>>
    raised,         \* the error the last analyze()/clean() rejected with, or "none"
    ioLog,          \* the file system calls of the last analyze()/clean(), in order
    options,        \* the pattern lists and the report format of the configuration
    dynamicPatterns,\* SourceScanner.dynamicPatterns
    scanQueue,      \* scanSourceDirectories(): the files still to scan
    fileInfo,       \* the FileInfo extractClassesFromFile() is working on
    scanPc,         \* the position of the scan: idle, files, a pass, fileDone, returned
    patternIdx,     \* the pattern of the running pass whose loop is running
    lastIndex,      \* that pattern's lastIndex
    classes,        \* extractClassesFromFile(): the set being built
    scanned         \* scanSourceDirectories(): its usedClasses set

vars == <<files, input, before, backups, cssFiles, whitelist, blacklist, dryRun,
          usedClasses, cssRules, analysisResult, unusedByFile, idx,
          cleanResult, pc, runs, sourceFiles, sourceClasses, faults, raised,
          ioLog, options, dynamicPatterns, scanQueue, fileInfo, scanPc,
          patternIdx, lastIndex, classes, scanned>>

\* the variables of the pruner and of the programmatic API
prunerVars == <<files, input, before, backups, cssFiles, whitelist, blacklist,
                dryRun, usedClasses, cssRules, analysisResult, unusedByFile, idx,
                cleanResult, pc, runs, sourceFiles, sourceClasses, faults,
                raised, ioLog, options>>

\* the variables of the source scanner
scanVars == <<dynamicPatterns, scanQueue, fileInfo, scanPc, patternIdx,
              lastIndex, classes, scanned>>

-----------------------------------------------------------------------------
(* Characters and JavaScript string primitives *)

Lower == {"a","b","c","d","e","f","g","h","i","j","k","l","m",
          "n","o","p","q","r","s","t","u","v","w","x","y","z"}
Upper == {"A","B","C","D","E","F","G","H","I","J","K","L","M",
          "N","O","P","Q","R","S","T","U","V","W","X","Y","Z"}
Digit == {"0","1","2","3","4","5","6","7","8","9"}

\* \s of a JavaScript regular expression, String.prototype.trim
IsSpace(c) == c \in {" ", "\n", "\t", "\r"}

\* s.substring(from-1, to) with 1-based inclusive bounds, empty when from > to
Sub(s, from, to) == IF from > to THEN <<>> ELSE SubSeq(s, from, to)

\* s.startsWith(p, at-1): p occurs in s at 1-based position at
OccursAt(s, p, at) ==
    /\ at >= 1
    /\ at + Len(p) - 1 <= Len(s)
    /\ \A k \in 1..Len(p) : s[at + k - 1] = p[k]

RECURSIVE IndexOf(_, _, _)
\* s.indexOf(p, from-1) + 1, 1-based; 0 when there is none (JavaScript's -1)
IndexOf(s, p, from) ==
    IF from + Len(p) - 1 > Len(s) THEN 0
    ELSE IF OccursAt(s, p, from) THEN from
    ELSE IndexOf(s, p, from + 1)

\* s.includes(p)
Includes(s, p) == IndexOf(s, p, 1) # 0

StartsWith(s, p) == OccursAt(s, p, 1)
EndsWith(s, p) == Len(p) <= Len(s) /\ OccursAt(s, p, Len(s) - Len(p) + 1)

RECURSIVE SkipSpace(_, _)
\* first position >= i holding no whitespace (Len(s)+1 when there is none)
SkipSpace(s, i) ==
    IF i > Len(s) THEN Len(s) + 1
    ELSE IF IsSpace(s[i]) THEN SkipSpace(s, i + 1) ELSE i

RECURSIVE SkipSpaceBack(_, _)
\* last position <= i holding no whitespace (0 when there is none)
SkipSpaceBack(s, i) ==
    IF i < 1 THEN 0
    ELSE IF IsSpace(s[i]) THEN SkipSpaceBack(s, i - 1) ELSE i

\* s.trim()
Trim(s) == Sub(s, SkipSpace(s, 1), SkipSpaceBack(s, Len(s)))

\* Buffer.byteLength(s, 'utf8'); every character of the model is ASCII
ByteLength(s) == Len(s)

RECURSIVE Concat(_)
\* the concatenation of a sequence of strings
Concat(ss) == IF ss = <<>> THEN <<>> ELSE Head(ss) \o Concat(Tail(ss))

RECURSIVE Join(_, _)
\* ss.join(sep)
Join(ss, sep) ==
    IF ss = <<>> THEN <<>>
    ELSE IF Len(ss) = 1 THEN Head(ss)
    ELSE Head(ss) \o sep \o Join(Tail(ss), sep)

RECURSIVE SplitOn(_, _)
\* s.split(c) for a one-character separator c
SplitOn(s, c) ==
    LET at == IndexOf(s, <<c>>, 1)
    IN  IF at = 0 THEN <<s>>
        ELSE <<Sub(s, 1, at - 1)>> \o SplitOn(Sub(s, at + 1, Len(s)), c)

\* the elements of a sequence
Range(s) == {s[i] : i \in DOMAIN s}

-----------------------------------------------------------------------------
(* Whitelist / blacklist patterns: CSSPruner.isWhitelisted, isBlacklisted *)

RECURSIVE RegexAtoms(_)
\* the atoms of a regular expression body made of literal characters,
\* escaped characters (\c) and the wildcard "."
RegexAtoms(b) ==
    IF b = <<>> THEN <<>>
    ELSE IF b[1] = "\\" /\ Len(b) >= 2
         THEN <<[any |-> FALSE, ch |-> b[2]]>> \o RegexAtoms(Sub(b, 3, Len(b)))
         ELSE <<[any |-> b[1] = ".", ch |-> b[1]]>> \o RegexAtoms(Tail(b))

\* new RegExp(body).test(s), for bodies of the form ^? atoms $?
RegexTest(body, s) ==
    LET anchS == body # <<>> /\ body[1] = "^"
        b1    == IF anchS THEN Tail(body) ELSE body
        anchE == /\ b1 # <<>>
                 /\ b1[Len(b1)] = "$"
                 /\ (Len(b1) = 1 \/ b1[Len(b1) - 1] # "\\")
        atoms == RegexAtoms(IF anchE THEN Sub(b1, 1, Len(b1) - 1) ELSE b1)
        n     == Len(atoms)
        matchAt(i) ==
            /\ i + n - 1 <= Len(s)
            /\ \A k \in 1..n :
                  IF atoms[k].any THEN s[i + k - 1] \notin {"\n", "\r"}
                                  ELSE s[i + k - 1] = atoms[k].ch
            /\ (anchE => i + n - 1 = Len(s))
    IN  \E i \in (IF anchS THEN {1} ELSE 1..(Len(s) + 1)) : matchAt(i)

\* the body of the .some() callback shared by isWhitelisted and isBlacklisted
PatternMatches(pattern, selector) ==
    IF StartsWith(pattern, <<"/">>) /\ EndsWith(pattern, <<"/">>)
    THEN RegexTest(Sub(pattern, 2, Len(pattern) - 1), selector)
    ELSE Includes(selector, pattern)

\* new RegExp(body) raises a SyntaxError: a quantifier with nothing to
\* repeat, or an unescaped "(" or "[" that is never closed
RegexRaises(body) ==
    \/ body # <<>> /\ body[1] \in {"*", "+", "?"}
    \/ \E i \in DOMAIN body :
          /\ body[i] \in {"(", "["}
          /\ (i = 1 \/ body[i - 1] # "\\")
          /\ ~\E j \in (i + 1)..Len(body) :
                 body[j] = (IF body[i] = "(" THEN ")" ELSE "]")

\* the callback raises on this pattern: it is /.../-delimited and its body
\* is no regular expression
PatternRaises(pattern) ==
    /\ StartsWith(pattern, <<"/">>) /\ EndsWith(pattern, <<"/">>)
    /\ RegexRaises(Sub(pattern, 2, Len(pattern) - 1))

\* list.some(callback) raises for this selector: some() stops at the first
\* pattern that matches, so it raises when the first pattern that either
\* matches or is malformed is a malformed one
SomeRaises(list, selector) ==
    LET stop == {k \in DOMAIN list :
                    PatternRaises(list[k]) \/ PatternMatches(list[k], selector)}
    IN  /\ stop # {}
        /\ PatternRaises(list[CHOOSE k \in stop : \A m \in stop : k <= m])

isWhitelisted(selector) ==
    \E k \in DOMAIN whitelist : PatternMatches(whitelist[k], selector)

isBlacklisted(selector) ==
    \E k \in DOMAIN blacklist : PatternMatches(blacklist[k], selector)

-----------------------------------------------------------------------------
(* Usage classifier: CSSPruner.isSelectorUsed, analyzeUsage *)

\* [a-zA-Z_-] and [a-zA-Z0-9_-] of classRegex
IdentStart(c) == c \in Lower \cup Upper \cup {"_", "-"}
IdentChar(c) == c \in Lower \cup Upper \cup Digit \cup {"_", "-"}

RECURSIVE IdentEnd(_, _)
\* the last position of the run of [a-zA-Z0-9_-] that holds position i
IdentEnd(s, i) ==
    IF i < Len(s) /\ IdentChar(s[i + 1]) THEN IdentEnd(s, i + 1) ELSE i

RECURSIVE ClassNamesFrom(_, _)
\* the matches of /\.([a-zA-Z_-][a-zA-Z0-9_-]*)/g in s from position i on
ClassNamesFrom(s, i) ==
    IF i >= Len(s) THEN <<>>
    ELSE IF s[i] = "." /\ IdentStart(s[i + 1])
         THEN LET last == IdentEnd(s, i + 1)
              IN  <<Sub(s, i + 1, last)>> \o ClassNamesFrom(s, last + 1)
         ELSE ClassNamesFrom(s, i + 1)

extractClassNamesFromSelector(selector) == ClassNamesFrom(selector, 1)

\* /^[a-z]+$/i.test(s)
LettersOnly(s) == Len(s) >= 1 /\ \A k \in 1..Len(s) : s[k] \in Lower \cup Upper

\* mutant: the pseudo-class test is left out of the conservative keep
isSpecialSelector_NoPseudo(selector) ==
    \/ Includes(selector, <<"[">>)
    \/ Includes(selector, <<"*">>)
    \/ Includes(selector, <<"h","t","m","l">>)
    \/ Includes(selector, <<"b","o","d","y">>)
    \/ LettersOnly(Trim(selector))

isSpecialSelector(selector) ==
    \/ Includes(selector, <<":">>)
    \/ Includes(selector, <<"[">>)
    \/ Includes(selector, <<"*">>)
    \/ Includes(selector, <<"h","t","m","l">>)
    \/ Includes(selector, <<"b","o","d","y">>)
    \/ LettersOnly(Trim(selector))

\* mutant: a selector counts as used only when all its class names are used
isSelectorUsed_AllClasses(selector, used) ==
    LET classNames == extractClassNamesFromSelector(selector)
    IN  \/ /\ classNames # <<>>
           /\ \A k \in DOMAIN classNames : classNames[k] \in used
        \/ isSpecialSelector(selector)

\* mutant: the membership test is inverted, a selector counts as used when
\* one of its class names is missing from the scan result
isSelectorUsed_Inverted(selector, used) ==
    LET classNames == extractClassNamesFromSelector(selector)
    IN  \/ \E k \in DOMAIN classNames : classNames[k] \notin used
        \/ isSpecialSelector(selector)

isSelectorUsed(selector, used) ==
    LET classNames == extractClassNamesFromSelector(selector)
    IN  \/ \E k \in DOMAIN classNames : classNames[k] \in used
        \/ isSpecialSelector(selector)

\* the verdict analyzeUsage reaches for one rule: the list it is pushed to
\* and, for unusedSelectors, the reason
\* mutant: the blacklist is consulted before the whitelist
Verdict_BlacklistFirst(selector, used) ==
    IF isSelectorUsed(selector, used) THEN "Used"
    ELSE IF isBlacklisted(selector) THEN "Blacklisted"
    ELSE IF isWhitelisted(selector) THEN "Whitelisted"
    ELSE "Not found in source files"

Verdict(selector, used) ==
    IF isSelectorUsed(selector, used) THEN "Used"
    ELSE IF isWhitelisted(selector) THEN "Whitelisted"
    ELSE IF isBlacklisted(selector) THEN "Blacklisted"
    ELSE "Not found in source files"

\* the loop body of analyzeUsage raises for this selector: the lists are
\* consulted only for a selector that is not used, the blacklist only when
\* the whitelist did not match
VerdictRaises(selector, used) ==
    /\ ~isSelectorUsed(selector, used)
    /\ \/ SomeRaises(whitelist, selector)
       \/ ~isWhitelisted(selector) /\ SomeRaises(blacklist, selector)

\* analyzeUsage raises on one of the rules
analyzeUsageRaises(rules, used) ==
    \E k \in DOMAIN rules : VerdictRaises(rules[k].selector, used)

UsedEntry(rule, usedIn) ==
    [selector |-> rule.selector, file |-> rule.file, usedIn |-> usedIn]

UnusedEntry(rule, reason) ==
    [selector |-> rule.selector, file |-> rule.file, line |-> rule.line,
     column |-> rule.column, size |-> rule.size, reason |-> reason]

RECURSIVE analyzeUsage_WhitelistedDropped(_, _)
\* mutant: a rule kept by the whitelist is pushed to neither list
analyzeUsage_WhitelistedDropped(rules, used) ==
    IF rules = <<>> THEN [unusedSelectors |-> <<>>, usedSelectors |-> <<>>]
    ELSE LET rule == Head(rules)
             v    == Verdict(rule.selector, used)
             rest == analyzeUsage_WhitelistedDropped(Tail(rules), used)
         IN  IF v = "Used"
             THEN [rest EXCEPT !.usedSelectors = <<UsedEntry(rule, <<>>)>> \o @]
             ELSE IF v = "Whitelisted"
             THEN rest
             ELSE [rest EXCEPT !.unusedSelectors = <<UnusedEntry(rule, v)>> \o @]

RECURSIVE analyzeUsage(_, _)
analyzeUsage(rules, used) ==
    IF rules = <<>> THEN [unusedSelectors |-> <<>>, usedSelectors |-> <<>>]
    ELSE LET rule == Head(rules)
             v    == Verdict(rule.selector, used)
             rest == analyzeUsage(Tail(rules), used)
         IN  IF v = "Used"
             THEN [rest EXCEPT !.usedSelectors = <<UsedEntry(rule, <<>>)>> \o @]
             ELSE IF v = "Whitelisted"
             THEN [rest EXCEPT
                     !.usedSelectors = <<UsedEntry(rule, <<"whitelist">>)>> \o @]
             ELSE [rest EXCEPT !.unusedSelectors = <<UnusedEntry(rule, v)>> \o @]

-----------------------------------------------------------------------------
(* The css-tree calls of the code (parse, generate, walk), on the grammar  *)
(* of rules `selectors { declarations }` and at-rules `@name prelude {     *)
(* rules }`.  A node is a record                                           *)
(*   [type, name, prelude, selectors, block, children, at]                 *)
(* where, for a Rule, selectors is the generated text of each member of    *)
(* its SelectorList (empty when the prelude is no selector list) and block *)
(* its generated declarations; for an Atrule, children are the nodes of    *)
(* its block.  `at` is the offset of the node in the text (node.loc).      *)

KEYFRAMES == <<"k","e","y","f","r","a","m","e","s">>
MEDIA == <<"m","e","d","i","a">>

\* generate(selector): the selectors of the model carry no redundant
\* whitespace inside, so generating one trims it
GenerateSelector(raw) == Trim(raw)

\* generate of the declarations of a block: whitespace around the tokens
\* and empty declarations are dropped, the rest joined with ";"
GenerateDeclarations(raw) ==
    LET bare  == SelectSeq(raw, LAMBDA c : ~IsSpace(c))
        parts == SelectSeq(SplitOn(bare, ";"), LAMBDA d : d # <<>>)
    IN  Join(parts, <<";">>)

\* the members of a rule prelude when it parses as a SelectorList, <<>> when
\* it does not (an empty member, or a brace inside it): the prelude is Raw
PreludeSelectors(raw) ==
    LET parts == SplitOn(raw, ",")
        ok    == /\ ~Includes(raw, <<"}">>)
                 /\ \A k \in DOMAIN parts : Trim(parts[k]) # <<>>
    IN  IF ok THEN [k \in DOMAIN parts |-> GenerateSelector(parts[k])] ELSE <<>>

RuleNode(rawPrelude, rawBlock, at) ==
    [type |-> "Rule", name |-> <<>>, prelude |-> Trim(rawPrelude),
     selectors |-> PreludeSelectors(rawPrelude),
     block |-> GenerateDeclarations(rawBlock), children |-> <<>>, at |-> at]

AtruleNode(name, rawPrelude, children, at) ==
    [type |-> "Atrule", name |-> name, prelude |-> Trim(rawPrelude),
     selectors |-> <<>>, block |-> <<>>, children |-> children, at |-> at]

RECURSIVE ParseNodes(_, _, _)
\* the nodes of text t from position i on, up to the end of the text or, in a
\* block, up to its closing brace; next is the position after what was read
ParseNodes(t, i, inBlock) ==
    LET j == SkipSpace(t, i)
        p == IndexOf(t, <<"{">>, j)
        q == IndexOf(t, <<"}">>, j)
    IN  IF j > Len(t) THEN [nodes |-> <<>>, next |-> j]
        ELSE IF inBlock /\ q # 0 /\ (p = 0 \/ q < p)
             \* the block closes (what precedes the brace holds no rule)
             THEN [nodes |-> <<>>, next |-> q + 1]
        ELSE IF p = 0
             \* a prelude with no block: Raw, no Rule node
             THEN [nodes |-> <<>>, next |-> Len(t) + 1]
        ELSE IF t[j] = "@"
             THEN LET nmEnd == IdentEnd(t, j)
                      inner == ParseNodes(t, p + 1, TRUE)
                      node  == AtruleNode(Sub(t, j + 1, nmEnd),
                                          Sub(t, nmEnd + 1, p - 1), inner.nodes, j)
                      rest  == ParseNodes(t, inner.next, inBlock)
                  IN  [nodes |-> <<node>> \o rest.nodes, next |-> rest.next]
        ELSE LET e    == IndexOf(t, <<"}">>, p + 1)
                 bEnd == IF e = 0 THEN Len(t) ELSE e - 1
                 node == RuleNode(Sub(t, j, p - 1), Sub(t, p + 1, bEnd), j)
                 rest == ParseNodes(t, bEnd + 2, inBlock)
             IN  [nodes |-> <<node>> \o rest.nodes, next |-> rest.next]

\* parse(content, {positions: true}): the children of the StyleSheet node
Parse(t) == ParseNodes(t, 1, FALSE).nodes

\* generate(node.block) of a Rule: the declarations in their braces
GenerateBlock(node) == <<"{">> \o node.block \o <<"}">>

RECURSIVE Generate(_)
\* generate(ast): css-tree prints no optional whitespace
Generate(nodes) ==
    IF nodes = <<>> THEN <<>>
    ELSE LET n == Head(nodes)
             text == IF n.type = "Rule"
                     THEN (IF n.selectors # <<>> THEN Join(n.selectors, <<",">>)
                           ELSE n.prelude) \o GenerateBlock(n)
                     ELSE <<"@">> \o n.name
                          \o (IF n.prelude # <<>> THEN <<" ">> \o n.prelude ELSE <<>>)
                          \o <<"{">> \o Generate(n.children) \o <<"}">>
         IN  text \o Generate(Tail(nodes))

\* node.loc.start of a node at offset `at`
LineOf(t, at) == 1 + Cardinality({k \in 1..(at - 1) : t[k] = "\n"})
ColumnOf(t, at) ==
    LET nl == {k \in 1..(at - 1) : t[k] = "\n"}
    IN  IF nl = {} THEN at ELSE at - (CHOOSE k \in nl : \A m \in nl : k >= m)

-----------------------------------------------------------------------------
(* Rule extractor: CSSParser.parseCSSContent, parseCSSFiles *)

\* mutant: the braces of the generated block are left out of the size
calculateRuleSize_NoBraces(selector, properties) ==
    ByteLength(selector \o Sub(properties, 2, Len(properties) - 1))

calculateRuleSize(selector, properties) == ByteLength(selector \o properties)

\* one CSSRule record; kind tells which of mediaQuery / keyframe is set
CSSRule(selector, properties, file, t, at, kind, context) ==
    [selector |-> selector, properties |-> properties, file |-> file,
     line |-> LineOf(t, at), column |-> ColumnOf(t, at),
     size |-> calculateRuleSize(selector, properties),
     kind |-> kind,
     mediaQuery |-> IF kind = "media" THEN context ELSE <<>>,
     keyframe |-> IF kind = "keyframe" THEN context ELSE <<>>]

\* the records pushed for one Rule node: one per member of its selector list
RuleRecords(node, file, t, kind, context) ==
    [k \in DOMAIN node.selectors |->
        CSSRule(Trim(node.selectors[k]), GenerateBlock(node), file, t, node.at,
                kind, context)]

RECURSIVE parseMediaRules(_, _, _, _)
\* walk(mediaNode.block, ...): every Rule node below the block, in document
\* order, stamped with the media query
parseMediaRules(children, file, t, mediaQuery) ==
    IF children = <<>> THEN <<>>
    ELSE LET n == Head(children)
         IN  (IF n.type = "Rule" THEN RuleRecords(n, file, t, "media", mediaQuery)
              ELSE parseMediaRules(n.children, file, t, mediaQuery))
             \o parseMediaRules(Tail(children), file, t, mediaQuery)

\* one synthetic record for the @keyframes block itself
parseKeyframeRules(node, file, t) ==
    LET keyframeRule == <<"@">> \o KEYFRAMES \o <<" ">> \o node.prelude
        properties   == <<"{">> \o Generate(node.children) \o <<"}">>
    IN  <<CSSRule(keyframeRule, properties, file, t, node.at, "keyframe",
                  node.prelude)>>

\* generate(node.prelude) in the callback: an @media or @keyframes at-rule
\* written without a prelude has node.prelude = null, and generate raises on it
GeneratePreludeRaises(n) ==
    n.type = "Atrule" /\ n.name \in {MEDIA, KEYFRAMES} /\ n.prelude = <<>>

RECURSIVE WalkRecords(_, _, _)
\* the walk(ast, callback) of parseCSSContent: the callback runs on every
\* node of the tree in document order, the nodes inside at-rule blocks
\* included, and pushes the records of the three cases onto `rules`.  When
\* the callback raises the walk ends there: records holds what was pushed
\* before, and raised is TRUE
WalkRecords(nodes, file, t) ==
    IF nodes = <<>> THEN [records |-> <<>>, raised |-> FALSE]
    ELSE LET n == Head(nodes)
             own == IF n.type = "Rule"
                    THEN RuleRecords(n, file, t, "rule", <<>>)
                    ELSE IF n.name = MEDIA
                    THEN parseMediaRules(n.children, file, t, n.prelude)
                    ELSE IF n.name = KEYFRAMES
                    THEN parseKeyframeRules(n, file, t)
                    ELSE <<>>
             inner == WalkRecords(n.children, file, t)
             rest  == WalkRecords(Tail(nodes), file, t)
         IN  IF GeneratePreludeRaises(n)
             THEN [records |-> <<>>, raised |-> TRUE]
             ELSE IF inner.raised
             THEN [records |-> own \o inner.records, raised |-> TRUE]
             ELSE [records |-> own \o inner.records \o rest.records,
                   raised |-> rest.raised]

\* the try block of parseCSSContent: parse(), then the walk; the catch block
\* logs, and the function returns `rules` as it stands
parseCSSContent(content, file) ==
    IF <<"parse", file>> \in faults THEN <<>>
    ELSE WalkRecords(Parse(content), file, content).records

\* mutant: the first file that cannot be read or parsed ends the batch
parseCSSFiles_AbortOnFailure(paths, fs) ==
    LET failing == {k \in DOMAIN paths :
                       \/ <<"parseRead", paths[k]>> \in faults
                       \/ <<"parse", paths[k]>> \in faults}
        upTo    == IF failing = {} THEN Len(paths)
                   ELSE (CHOOSE k \in failing : \A m \in failing : k <= m) - 1
        Records[k \in 0..Len(paths)] ==
            IF k = 0 THEN <<>>
            ELSE Records[k - 1] \o parseCSSContent(fs[paths[k]], paths[k])
    IN  Records[upTo]

RECURSIVE parseCSSFiles(_, _)
\* the records of every file of cssFiles, in order, read from disk fs; a
\* file whose readFileSync raises is logged and skipped
parseCSSFiles(paths, fs) ==
    IF paths = <<>> THEN <<>>
    ELSE (IF <<"parseRead", Head(paths)>> \in faults THEN <<>>
          ELSE parseCSSContent(fs[Head(paths)], Head(paths)))
         \o parseCSSFiles(Tail(paths), fs)

RECURSIVE scanSourceDirectories(_)
\* the union of the class names of every source file that can be read; a
\* file whose readFileSync raises is logged and skipped
scanSourceDirectories(paths) ==
    IF paths = <<>> THEN {}
    ELSE (IF <<"scanRead", Head(paths)>> \in faults THEN {}
          ELSE sourceClasses[Head(paths)])
         \cup scanSourceDirectories(Tail(paths))

-----------------------------------------------------------------------------
(* Removal engine, text strategy: CSSPruner.removeUnusedSelectorsStringBased *)

\* (selector.match(/[.#]/g) || []).length
Specificity(selector) ==
    Cardinality({k \in DOMAIN selector : selector[k] \in {".", "#"}})

\* the comparator of the sort is negative: a goes before b
SortsBefore(a, b) ==
    \/ Specificity(a.selector) > Specificity(b.selector)
    \/ /\ Specificity(a.selector) = Specificity(b.selector)
       /\ Len(a.selector) > Len(b.selector)

RECURSIVE SortSelectors(_)
\* unusedSelectors.sort(...): Array.prototype.sort is stable
SortSelectors(sels) ==
    IF sels = <<>> THEN <<>>
    ELSE LET front  == SortSelectors(SubSeq(sels, 1, Len(sels) - 1))
             x      == sels[Len(sels)]
             \* x goes before the first element it strictly precedes
             later  == {k \in DOMAIN front : SortsBefore(x, front[k])}
             at     == IF later = {} THEN Len(front) + 1
                       ELSE CHOOSE k \in later : \A m \in later : k <= m
         IN  Sub(front, 1, at - 1) \o <<x>> \o Sub(front, at, Len(front))

\* selectorPattern matches with the selector text at position j:
\* (?:^|[,}])\s*  before it and  \s*(?:[,{]|$)  after it
PatternAt(text, selector, i, j) ==
    /\ j = SkipSpace(text, i)
    /\ OccursAt(text, selector, j)
    /\ LET k == SkipSpace(text, j + Len(selector))
       IN  k > Len(text) \/ text[k] \in {",", "{"}

RECURSIVE MatchFrom(_, _, _)
\* the first match of selectorPattern that starts at position i or later
MatchFrom(text, selector, i) ==
    IF i > Len(text) THEN 0
    ELSE IF \/ i = 1 /\ PatternAt(text, selector, 1, SkipSpace(text, 1))
            \/ /\ text[i] \in {",", "}"}
               /\ PatternAt(text, selector, i + 1, SkipSpace(text, i + 1))
         THEN i
         ELSE MatchFrom(text, selector, i + 1)

\* the index (1-based) of the first match of selectorPattern, 0 when none:
\* the match starts at the start of the text or on a "," or "}"
FirstMatch(text, selector) == MatchFrom(text, selector, 1)

RECURSIVE CountBraces(_, _, _)
\* the while loop at currentIndex with braceCount braces open
CountBraces(text, currentIndex, braceCount) ==
    IF currentIndex > Len(text) THEN 0
    ELSE IF text[currentIndex] = "}" /\ braceCount = 1 THEN currentIndex
    ELSE CountBraces(text, currentIndex + 1,
                     IF text[currentIndex] = "{" THEN braceCount + 1
                     ELSE IF text[currentIndex] = "}" THEN braceCount - 1
                     ELSE braceCount)

\* the brace counting loop: the position of the brace closing the one at
\* open, 0 when the text ends first (braceCount stays above 0)
ClosingBrace(text, open) == CountBraces(text, open + 1, 1)

\* beforeSelector.replace(/,\s*$/, '') when it ends with "," or ", "
DropTrailingComma(b) ==
    IF EndsWith(b, <<",">>) \/ EndsWith(b, <<",", " ">>)
    THEN LET commas == {k \in DOMAIN b : b[k] = ","}
         IN  Sub(b, 1, (CHOOSE k \in commas : \A m \in commas : k >= m) - 1)
    ELSE b

\* afterSelector.replace(/^,\s*/, '') when it starts with "," or ", "
DropLeadingComma(a) ==
    IF StartsWith(a, <<",">>) THEN Sub(a, SkipSpace(a, 2), Len(a)) ELSE a

\* one turn of the for loop over sortedSelectors: the text after the
\* (at most one) match of this selector has been handled
RemoveOneSelector(result, selector) ==
    LET matchStart    == FirstMatch(result, selector)
        selectorStart == IndexOf(result, selector, matchStart)
        openBrace     == IndexOf(result, <<"{">>, selectorStart)
        close         == ClosingBrace(result, openBrace)
        ruleContent   == Sub(result, selectorStart, openBrace - 1)
    IN  IF isWhitelisted(selector) THEN result
        ELSE IF matchStart = 0 \/ selectorStart = 0 \/ openBrace = 0 THEN result
        ELSE IF close = 0 THEN result
        ELSE IF Includes(ruleContent, <<",">>)
             THEN DropTrailingComma(Sub(result, 1, selectorStart - 1))
                  \o DropLeadingComma(
                        Sub(result, selectorStart + Len(selector), Len(result)))
             ELSE Sub(result, 1, selectorStart - 1)
                  \o Sub(result, close + 1, Len(result))

RECURSIVE RemoveAll(_, _)
RemoveAll(result, sels) ==
    IF sels = <<>> THEN result
    ELSE RemoveAll(RemoveOneSelector(result, Head(sels).selector), Tail(sels))

RECURSIVE CollapsePairs(_, _, _)
\* s.replace(/c\s*c/g, 'c') from position i on, for c = ";" and c = "}"
CollapsePairs(s, c, i) ==
    IF i > Len(s) THEN <<>>
    ELSE LET k == SkipSpace(s, i + 1)
         IN  IF s[i] = c /\ k <= Len(s) /\ s[k] = c
             THEN <<c>> \o CollapsePairs(s, c, k + 1)
             ELSE <<s[i]>> \o CollapsePairs(s, c, i + 1)

RECURSIVE CollapseSpaces(_, _)
\* s.replace(/\s{2,}/g, ' ') from position i on
CollapseSpaces(s, i) ==
    IF i > Len(s) THEN <<>>
    ELSE IF IsSpace(s[i]) /\ i < Len(s) /\ IsSpace(s[i + 1])
         THEN <<" ">> \o CollapseSpaces(s, SkipSpace(s, i))
         ELSE <<s[i]>> \o CollapseSpaces(s, i + 1)

\* the four clean-up statements that end the text strategy
CleanUp(result) ==
    Trim(CollapsePairs(CollapseSpaces(CollapsePairs(result, ";", 1), 1), "}", 1))

removeUnusedSelectorsStringBased(content, unusedSelectors) ==
    CleanUp(RemoveAll(content, SortSelectors(unusedSelectors)))

-----------------------------------------------------------------------------
(* Removal engine, structural strategy: CSSPruner.removeUnusedSelectors *)

\* the selectors the rule node carries, generated (extractSelectorsFromNode)
extractSelectorsFromNode(node) == node.selectors

\* shouldPreserve of an @keyframes node
shouldPreserve(node) ==
    LET atRulePrelude == node.prelude
        fullAtRule == <<"@">> \o KEYFRAMES
                      \o (IF atRulePrelude # <<>> THEN <<" ">> \o atRulePrelude
                          ELSE <<>>)
    IN  \/ isWhitelisted(fullAtRule)
        \/ isWhitelisted(<<"@">> \o KEYFRAMES)
        \/ /\ atRulePrelude # <<>>
           /\ \/ isWhitelisted(Trim(atRulePrelude))
              \/ isWhitelisted(<<"@">> \o KEYFRAMES \o <<" ">> \o Trim(atRulePrelude))

\* hasUnusedSelector of a Rule node
hasUnusedSelector(node, unusedSet) ==
    LET selectors == extractSelectorsFromNode(node)
    IN  \E k \in DOMAIN selectors :
            /\ Trim(selectors[k]) \in unusedSet
            /\ ~isWhitelisted(Trim(selectors[k]))

RECURSIVE walkWithContext_NoKeyframesContext(_, _, _)
\* mutant: the walk forgets that it is inside a preserved @keyframes block
walkWithContext_NoKeyframesContext(nodes, unusedSet, insideKeyframes) ==
    \E k \in DOMAIN nodes :
        LET node == nodes[k]
        IN  IF node.type = "Rule"
            THEN hasUnusedSelector(node, unusedSet)
            ELSE walkWithContext_NoKeyframesContext(node.children, unusedSet,
                                                    insideKeyframes)

RECURSIVE walkWithContext(_, _, _)
\* TRUE when the walk over these nodes reaches list.remove(item).  Every
\* forEach callback of the walk hands its first argument, the node, to
\* walkWithContext as `item` too; css-tree's List.remove works on the list
\* cell (it assigns item.prev.next), so the call raises on a node and the
\* walk ends there.  FALSE: the walk completes and the tree is unchanged.
walkWithContext(nodes, unusedSet, insideKeyframes) ==
    \E k \in DOMAIN nodes :
        LET node == nodes[k]
        IN  IF node.type = "Atrule" /\ node.name = KEYFRAMES /\ shouldPreserve(node)
            THEN walkWithContext(node.children, unusedSet, TRUE)
            ELSE IF node.type = "Rule"
            THEN ~insideKeyframes /\ hasUnusedSelector(node, unusedSet)
            ELSE walkWithContext(node.children, unusedSet, insideKeyframes)

\* the try block ends in generate(ast) when nothing raised; the catch block
\* hands the original content to the text strategy
removeUnusedSelectors(content, unusedSelectors) ==
    LET unusedSet == {unusedSelectors[k].selector : k \in DOMAIN unusedSelectors}
        ast       == Parse(content)
    IN  IF walkWithContext(ast, unusedSet, FALSE)
        THEN removeUnusedSelectorsStringBased(content, unusedSelectors)
        ELSE Generate(ast)

-----------------------------------------------------------------------------
(* CSSPruner.analyze and CSSPruner.clean *)

RECURSIVE SumSizes(_)
SumSizes(rs) == IF rs = <<>> THEN 0 ELSE Head(rs).size + SumSizes(Tail(rs))

RECURSIVE SortBySize(_)
\* result.unusedSelectors.sort((a, b) => b.size - a.size): the array is
\* sorted in place, larger records first; Array.prototype.sort is stable
SortBySize(sels) ==
    IF sels = <<>> THEN <<>>
    ELSE LET front == SortBySize(SubSeq(sels, 1, Len(sels) - 1))
             x     == sels[Len(sels)]
             later == {k \in DOMAIN front : x.size > front[k].size}
             at    == IF later = {} THEN Len(front) + 1
                      ELSE CHOOSE k \in later : \A m \in later : k <= m
         IN  Sub(front, 1, at - 1) \o <<x>> \o Sub(front, at, Len(front))

\* mutant: no reporter touches the result
generateReport_ReadOnly(result) == result

\* generateReport(result): the console and the html reporter sort
\* result.unusedSelectors while listing the largest records (only when there
\* are any, and sorting an empty array changes nothing); the json reporter
\* maps and filters it without changing it
generateReport(result) ==
    IF options.reportFormat = "json" THEN result
    ELSE [result EXCEPT !.unusedSelectors = SortBySize(@)]

\* analyze(): the AnalysisResult for the files on disk fs, as it is after
\* the report was generated
analyze(fs) ==
    LET rules == parseCSSFiles(cssFiles, fs)
        usage == analyzeUsage(rules, scanSourceDirectories(sourceFiles))
    IN  generateReport(
        [unusedSelectors  |-> usage.unusedSelectors,
         usedSelectors    |-> usage.usedSelectors,
         potentialSavings |-> SumSizes(usage.unusedSelectors),
         stats |-> [totalCSSFiles   |-> Len(cssFiles),
                    totalSelectors  |-> Len(rules),
                    usedSelectors   |-> Len(usage.usedSelectors),
                    unusedSelectors |-> Len(usage.unusedSelectors),
                    totalSize       |-> SumSizes(rules)]])

\* mutant: the loop of clean() runs over every file of config.cssFiles
GroupByFile_EveryFile(unused) ==
    [k \in DOMAIN cssFiles |->
        [file |-> cssFiles[k],
         selectors |-> SelectSeq(unused, LAMBDA e : e.file = cssFiles[k])]]

RECURSIVE GroupByFile(_)
\* unusedByFile: a Map keeps its keys in insertion order
GroupByFile(unused) ==
    IF unused = <<>> THEN <<>>
    ELSE LET front == GroupByFile(SubSeq(unused, 1, Len(unused) - 1))
             x     == unused[Len(unused)]
             at    == {k \in DOMAIN front : front[k].file = x.file}
         IN  IF at = {}
             THEN Append(front, [file |-> x.file, selectors |-> <<x>>])
             ELSE [k \in DOMAIN front |->
                     IF k \in at
                     THEN [front[k] EXCEPT !.selectors = Append(@, x)]
                     ELSE front[k]]

-----------------------------------------------------------------------------
(* Bounds and inputs *)

\* longest selector list of a rule of the input stylesheets
MaxSelectors == 2
\* number of clean() calls in a run
MaxRuns == 2

CssPath == "a.css"
SourcePath == "x.js"

ClassA == <<".", "a">>
ClassB == <<".", "b">>
ClassW == <<".", "w">>
SelectorPool == {ClassA, ClassB, ClassW}
TokenPool == {<<"a">>, <<"b">>}

\* selector lists without repetition, of 1..MaxSelectors members
SelectorLists ==
    {l \in UNION {[1..n -> SelectorPool] : n \in 1..MaxSelectors} :
        \A i, j \in DOMAIN l : i # j => l[i] # l[j]}

\* an input node: a rule, a rule in an @media block, or an @keyframes block
InputNodes ==
    {[kind |-> "rule", selectors |-> l] : l \in SelectorLists}
    \cup {[kind |-> "media", selectors |-> <<x>>] : x \in SelectorPool}
    \cup {[kind |-> "keyframes", selectors |-> <<>>]}

\* a second node: a rule of one selector or an @keyframes block
FollowingNodes == {n \in InputNodes : n.kind # "media" /\ Len(n.selectors) <= 1}

\* stylesheets of one or two nodes
InputSheets == {<<n>> : n \in InputNodes} \cup (InputNodes \X FollowingNodes)

\* the text of a rule, written compactly or with the usual spaces
RuleText(selectors, decl, spaced) ==
    IF spaced
    THEN Join(selectors, <<",", " ">>) \o <<" ", "{", " ">> \o decl \o <<";", " ", "}">>
    ELSE Join(selectors, <<",">>) \o <<"{">> \o decl \o <<"}">>

BlockText(head, body, spaced) ==
    IF spaced THEN head \o <<" ", "{", " ">> \o body \o <<" ", "}">>
    ELSE head \o <<"{">> \o body \o <<"}">>

DeclRed == <<"c", ":", "r">>
DeclBlue == <<"c", ":", "b">>

NodeText(n, decl, spaced) ==
    IF n.kind = "rule" THEN RuleText(n.selectors, decl, spaced)
    ELSE IF n.kind = "media"
    THEN BlockText(<<"@">> \o MEDIA \o <<" ", "p", "r", "i", "n", "t">>,
                   RuleText(n.selectors, decl, spaced), spaced)
    ELSE BlockText(<<"@">> \o KEYFRAMES \o <<" ", "s">>,
                   RuleText(<<<<"0", "%">>>>, DeclRed, spaced)
                   \o (IF spaced THEN <<" ">> ELSE <<>>)
                   \o RuleText(<<<<"1", "0", "0", "%">>>>, DeclBlue, spaced),
                   spaced)

SheetText(sheet, spaced) ==
    IF Len(sheet) = 1 THEN NodeText(sheet[1], DeclRed, spaced)
    ELSE NodeText(sheet[1], DeclRed, spaced)
         \o (IF spaced THEN <<"\n">> ELSE <<>>)
         \o NodeText(sheet[2], DeclBlue, spaced)

\* config.whitelist and config.blacklist
PatternPool ==
    {[whitelist |-> <<>>, blacklist |-> <<>>],
     [whitelist |-> <<ClassW>>, blacklist |-> <<>>],
     [whitelist |-> <<ClassW, <<"@">> \o KEYFRAMES>>, blacklist |-> <<>>],
     [whitelist |-> <<>>, blacklist |-> <<ClassB>>]}

NoAnalysis ==
    [unusedSelectors |-> <<>>, usedSelectors |-> <<>>, potentialSavings |-> 0,
     stats |-> [totalCSSFiles |-> 0, totalSelectors |-> 0, usedSelectors |-> 0,
                unusedSelectors |-> 0, totalSize |-> 0]]

NoClean ==
    [removedSelectors |-> <<>>, bytesSaved |-> 0, modifiedFiles |-> <<>>,
     backupFiles |-> <<>>]

-----------------------------------------------------------------------------
(* The source scanner (SourceScanner).  A regular expression is a sequence *)
(* of elements, each a list of alternative literals or a repeated          *)
(* character class; exec() is computed by backtracking over them in the    *)
(* order a JavaScript engine tries them.                                   *)

Letters == <<"a","b","c","d","e","f","g","h","i","j","k","l","m",
             "n","o","p","q","r","s","t","u","v","w","x","y","z">>
Capitals == <<"A","B","C","D","E","F","G","H","I","J","K","L","M",
              "N","O","P","Q","R","S","T","U","V","W","X","Y","Z">>

\* the case folding of the i flag
toLowerCase(c) ==
    IF c \in Upper THEN Letters[CHOOSE n \in DOMAIN Capitals : Capitals[n] = c]
    ELSE c

\* (?:x|y) and plain literals: the alternatives, in the order they are tried
Lit(alts) ==
    [kind |-> "lit", alts |-> alts, neg |-> FALSE, chars |-> {}, min |-> 0,
     lazy |-> FALSE]

\* [...]* [...]+ [^...]* [^...]+ and their lazy forms
Rep(neg, chars, min, lazy) ==
    [kind |-> "rep", alts |-> <<>>, neg |-> neg, chars |-> chars, min |-> min,
     lazy |-> lazy]

\* a RegExp object: group 1 spans the elements capFrom..capTo (0: no group)
RegExp(elems, capFrom, capTo, global, ignoreCase) ==
    [elems |-> elems, capFrom |-> capFrom, capTo |-> capTo, global |-> global,
     ignoreCase |-> ignoreCase]

\* the character ` (U+0060), which a string of this language cannot hold
Tick == "tick"

Quotes == {"\"", "'"}
QuotesTick == {"\"", "'", Tick}
SpaceChars == {" ", "\n", "\t", "\r"}
WordChars == Lower \cup Upper \cup Digit \cup {"_"}

\* the literal p occurs in s at position at
LitAt(s, p, at, ignoreCase) ==
    /\ at + Len(p) - 1 <= Len(s)
    /\ \A k \in 1..Len(p) :
          IF ignoreCase THEN toLowerCase(s[at + k - 1]) = toLowerCase(p[k])
          ELSE s[at + k - 1] = p[k]

\* how many characters from position i on belong to the class of element e
RECURSIVE RunLength(_, _, _)
RunLength(s, i, e) ==
    IF i > Len(s) \/ ((s[i] \in e.chars) = e.neg) THEN 0
    ELSE 1 + RunLength(s, i + 1, e)

\* the only member of a one-element set: in `Only({f(x) : x \in {e}})` the
\* value of e is computed once and bound to x
Only(S) == CHOOSE x \in S : TRUE

Least(S) == CHOOSE x \in S : \A y \in S : x <= y
Greatest(S) == CHOOSE x \in S : \A y \in S : x >= y

\* the match of the elements k.. at position i: the positions where each
\* element starts followed by the position after the match, or <<>> when
\* there is none.  The alternatives of a literal are tried in order, from
\* alternative a on; of the lengths a repetition can take with the rest
\* matching, a greedy one takes the longest and a lazy one the shortest.
RECURSIVE MatchElems(_, _, _, _, _), TryAlts(_, _, _, _, _, _)
MatchElems(elems, k, s, i, ignoreCase) ==
    IF k > Len(elems) THEN <<i>>
    ELSE IF elems[k].kind = "lit" THEN TryAlts(elems, k, s, i, ignoreCase, 1)
    ELSE Only({IF ok = {} THEN <<>>
               ELSE Only({<<i>> \o MatchElems(elems, k + 1, s, i + n, ignoreCase) :
                             n \in {IF elems[k].lazy THEN Least(ok)
                                    ELSE Greatest(ok)}}) :
                  ok \in {{n \in elems[k].min..RunLength(s, i, elems[k]) :
                             MatchElems(elems, k + 1, s, i + n, ignoreCase)
                                 # <<>>}}})

TryAlts(elems, k, s, i, ignoreCase, a) ==
    IF a > Len(elems[k].alts) THEN <<>>
    ELSE IF ~LitAt(s, elems[k].alts[a], i, ignoreCase)
    THEN TryAlts(elems, k, s, i, ignoreCase, a + 1)
    ELSE Only({IF rest # <<>> THEN <<i>> \o rest
               ELSE TryAlts(elems, k, s, i, ignoreCase, a + 1) :
                  rest \in {MatchElems(elems, k + 1, s,
                                       i + Len(elems[k].alts[a]), ignoreCase)}})

\* re.exec(s) with re.lastIndex = last: whether it matched (at the leftmost
\* position that allows a match), group 1 (empty when the group is missing),
\* and the lastIndex it leaves.  Only a global expression starts at
\* lastIndex and moves it.
exec(re, s, last) ==
    Only({IF starts = {}
          THEN [found |-> FALSE, group |-> <<>>,
                lastIndex |-> IF re.global THEN 0 ELSE last]
          ELSE Only({[found |-> TRUE,
                      group |-> IF re.capFrom = 0 THEN <<>>
                                ELSE Sub(s, b[re.capFrom], b[re.capTo + 1] - 1),
                      lastIndex |-> IF re.global THEN b[Len(re.elems) + 1] - 1
                                    ELSE last] :
                       b \in {MatchElems(re.elems, 1, s, Least(starts),
                                         re.ignoreCase)}}) :
             starts \in {{i \in ((IF re.global THEN last ELSE 0) + 1)..(Len(s) + 1) :
                            MatchElems(re.elems, 1, s, i, re.ignoreCase) # <<>>}}})

ClassAttr == <<Lit(<<<<"c", "l", "a", "s", "s">>>>), Lit(<<<<"N", "a", "m", "e">>, <<>>>>)>>
ClassNameAttr == <<Lit(<<<<"c", "l", "a", "s", "s", "N", "a", "m", "e">>>>)>>

\* the attribute forms ="..." ={"..."} ={`...`} after a given attribute name
QuotedForm(attr) ==
    RegExp(attr \o <<Lit(<<<<"=">>>>), Lit(<<<<"\"">>, <<"'">>>>), Rep(TRUE, Quotes, 0, FALSE),
                     Lit(<<<<"\"">>, <<"'">>>>)>>,
           Len(attr) + 3, Len(attr) + 3, TRUE, FALSE)
BracedQuotedForm(attr) ==
    RegExp(attr \o <<Lit(<<<<"=", "{">>>>), Lit(<<<<"\"">>, <<"'">>>>), Rep(TRUE, Quotes, 0, FALSE),
                     Lit(<<<<"\"">>, <<"'">>>>), Lit(<<<<"}">>>>)>>,
           Len(attr) + 3, Len(attr) + 3, TRUE, FALSE)
BracedTickForm(attr) ==
    RegExp(attr \o <<Lit(<<<<"=", "{", Tick>>>>), Rep(TRUE, {Tick}, 0, FALSE), Lit(<<<<Tick, "}">>>>)>>,
           Len(attr) + 2, Len(attr) + 2, TRUE, FALSE)

\* the patterns of extractStaticClasses
StaticPatterns ==
    <<QuotedForm(ClassAttr),
      BracedQuotedForm(ClassAttr),
      BracedTickForm(ClassAttr),
      RegExp(<<Lit(<<<<"@", "a", "p", "p", "l", "y">>>>), Rep(FALSE, SpaceChars, 1, FALSE),
               Rep(TRUE, {";", "\n"}, 1, FALSE)>>, 3, 3, TRUE, FALSE),
      RegExp(<<Lit(<<<<"c", "l", "a", "s", "s", "L", "i", "s", "t", ".">>>>), Lit(<<<<"a", "d", "d">>, <<"t", "o", "g", "g", "l", "e">>>>), Lit(<<<<"(">>>>),
               Lit(<<<<"\"">>, <<"'">>>>), Rep(TRUE, Quotes, 0, FALSE), Lit(<<<<"\"">>, <<"'">>>>),
               Lit(<<<<")">>>>)>>, 5, 5, TRUE, FALSE)>>

\* the initial value of SourceScanner.dynamicPatterns
DefaultDynamicPatterns ==
    <<RegExp(ClassAttr \o
             <<Lit(<<<<"=">>>>), Lit(<<<<"\"">>, <<"'">>, <<Tick>>>>),
               Rep(TRUE, QuotesTick, 0, FALSE), Lit(<<<<"$", "{">>>>),
               Rep(TRUE, {"}"}, 1, FALSE), Lit(<<<<"}">>>>),
               Rep(TRUE, QuotesTick, 0, FALSE), Lit(<<<<"\"">>, <<"'">>, <<Tick>>>>)>>,
             5, 9, TRUE, FALSE),
      RegExp(ClassAttr \o
             <<Lit(<<<<"=">>>>), Lit(<<<<"\"">>, <<"'">>, <<Tick>>>>),
               Rep(TRUE, QuotesTick, 0, FALSE),
               Lit(<<<<"b", "g">>, <<"t", "e", "x", "t">>, <<"b", "o", "r", "d", "e", "r">>, <<"p">>, <<"m">>, <<"w">>, <<"h">>>>), Lit(<<<<"-", "[">>>>),
               Rep(TRUE, {"]"}, 1, FALSE), Lit(<<<<"]">>>>),
               Rep(TRUE, QuotesTick, 0, FALSE), Lit(<<<<"\"">>, <<"'">>, <<Tick>>>>)>>,
             5, 10, TRUE, FALSE),
      RegExp(<<Lit(<<<<"s", "t", "y", "l", "e", "d", ".">>>>), Rep(FALSE, Lower \cup Upper, 1, FALSE),
               Lit(<<<<Tick>>>>), Rep(TRUE, {Tick}, 0, FALSE), Lit(<<<<Tick>>>>)>>,
             4, 4, TRUE, FALSE),
      RegExp(<<Lit(<<<<"c", "s", "s", Tick>>>>), Rep(TRUE, {Tick}, 0, FALSE), Lit(<<<<Tick>>>>)>>,
             2, 2, TRUE, FALSE)>>

\* the patterns of extractJSXClasses
JSXPatterns ==
    <<QuotedForm(ClassNameAttr),
      BracedQuotedForm(ClassNameAttr),
      BracedTickForm(ClassNameAttr),
      RegExp(<<Lit(<<<<"c", "l", "a", "s", "s", "N", "a", "m", "e", "=", "{">>>>), Rep(TRUE, {"}"}, 1, FALSE), Lit(<<<<"}">>>>)>>,
             2, 2, TRUE, FALSE)>>

\* the pattern of extractHTMLClasses
HTMLPatterns == <<QuotedForm(<<Lit(<<<<"c", "l", "a", "s", "s">>>>)>>)>>

\* /<tag[^>]*>([\s\S]*?)<\/tag>/i of extractVueClasses
SectionPattern(tag) ==
    RegExp(<<Lit(<<<<"<">> \o tag>>), Rep(TRUE, {">"}, 0, FALSE), Lit(<<<<">">>>>),
             Rep(TRUE, {}, 0, TRUE), Lit(<<<<"<", "/">> \o tag \o <<">">>>>)>>,
           4, 4, FALSE, TRUE)

\* classString.split(/\s+/).filter(Boolean), as a set
RECURSIVE SplitSpaces(_, _)
SplitSpaces(s, i) ==
    IF i > Len(s) THEN {}
    ELSE IF s[i] \in SpaceChars THEN SplitSpaces(s, i + 1)
    ELSE UNION {{Sub(s, i, i + n - 1)} \cup SplitSpaces(s, i + n) :
                   n \in {RunLength(s, i, Rep(TRUE, SpaceChars, 1, FALSE))}}

\* template.split(/\$\{[^}]+\}/): the pieces between the ${...} expressions
RECURSIVE SplitExpressions(_, _, _)
SplitExpressions(s, from, i) ==
    IF i > Len(s) THEN {Sub(s, from, Len(s))}
    ELSE UNION {IF /\ LitAt(s, <<"$", "{">>, i, FALSE)
                   /\ n >= 1
                   /\ i + 2 + n <= Len(s)
                THEN {Sub(s, from, i - 1)}
                        \cup SplitExpressions(s, i + 3 + n, i + 3 + n)
                ELSE SplitExpressions(s, from, i + 1) :
                   n \in {RunLength(s, i + 2, Rep(TRUE, {"}"}, 1, FALSE))}}

extractStaticPartsFromTemplate(template) ==
    UNION {SplitSpaces(part, 1) : part \in SplitExpressions(template, 1, 1)}

\* mutant: a digit is accepted as the first character
isValidClassName_AnyFirst(className) ==
    /\ Len(className) > 0
    /\ \A k \in 1..Len(className) :
          className[k] \in Lower \cup Upper \cup Digit \cup {"_", "-"}

\* /^[a-zA-Z_-][a-zA-Z0-9_-]*$/.test(className) && className.length > 0
isValidClassName(className) ==
    /\ Len(className) > 0
    /\ className[1] \in Lower \cup Upper \cup {"_", "-"}
    /\ \A k \in 2..Len(className) :
          className[k] \in Lower \cup Upper \cup Digit \cup {"_", "-"}

\* what one match adds in extractStaticClasses, extractJSXClasses and
\* extractHTMLClasses
StaticTokens(classString) ==
    {className \in SplitSpaces(classString, 1) : isValidClassName(className)}

\* what one match adds in extractDynamicClasses
DynamicTokens(classString) ==
    {className \in extractStaticPartsFromTemplate(classString) :
        isValidClassName(className)}

\* path.extname(filePath).toLowerCase() mapped to FileInfo.type
getFileType(ext) ==
    CASE ext = "css" -> "css"
      [] ext = "ts" -> "ts"
      [] ext = "jsx" -> "jsx"
      [] ext = "tsx" -> "tsx"
      [] ext = "vue" -> "vue"
      [] ext \in {"html", "htm"} -> "html"
      [] OTHER -> "js"

NoFile == [content |-> <<>>, type |-> "js"]

\* a SourceScanner after construction
ScannerInit ==
    /\ dynamicPatterns = DefaultDynamicPatterns
    /\ scanQueue = <<>>
    /\ fileInfo = NoFile
    /\ scanPc = "idle"
    /\ patternIdx = 0
    /\ lastIndex = 0
    /\ classes = {}
    /\ scanned = {}

\* the pruner was constructed directly: nothing went through the API
\* reportFormat is 'console' unless the configuration says otherwise
NoOptions == [whitelist |-> <<>>, blacklist |-> <<>>, reportFormat |-> "console"]

-----------------------------------------------------------------------------
(* The state machine *)

Init ==
    /\ \E sheet \in InputSheets, spaced \in BOOLEAN :
          files = [f \in {CssPath} |-> SheetText(sheet, spaced)]
    /\ input = files
    /\ before = files
    /\ backups = <<>>
    /\ cssFiles = <<CssPath>>
    /\ \E c \in PatternPool : whitelist = c.whitelist /\ blacklist = c.blacklist
    /\ dryRun \in BOOLEAN
    /\ usedClasses = {}
    /\ cssRules = <<>>
    /\ analysisResult = NoAnalysis
    /\ unusedByFile = <<>>
    /\ idx = 0
    /\ cleanResult = NoClean
    /\ pc = "idle"
    /\ runs = 0
    /\ sourceFiles = <<SourcePath>>
    /\ sourceClasses \in [{SourcePath} -> SUBSET TokenPool]
    /\ faults = {}
    /\ raised = "none"
    /\ ioLog = <<>>
    /\ options = NoOptions
    /\ ScannerInit

\* one readFileSync / writeFileSync call, and whether it returned
IoCall(op, path, ok) == [op |-> op, path |-> path, ok |-> ok]

\* the reads of an analysis: every stylesheet, then every source file
AnalysisReads ==
    [k \in DOMAIN cssFiles |->
        IoCall("read", cssFiles[k], <<"parseRead", cssFiles[k]>> \notin faults)]
    \o [k \in DOMAIN sourceFiles |->
        IoCall("read", sourceFiles[k], <<"scanRead", sourceFiles[k]>> \notin faults)]

\* what a writeFileSync that raises can leave in the file: the file is
\* opened with truncation and then written, so it is left as it was (the
\* open failed), empty, or holding a part of the new content
FailedWriteOutcomes(old, new) == {old, <<>>, Sub(new, 1, Len(new) \div 2)}

\* mutant: the dry run reports no bytes saved
DryRunResult_NoSavings(result) ==
    [removedSelectors |-> result.unusedSelectors, bytesSaved |-> 0,
     modifiedFiles |-> <<>>, backupFiles |-> <<>>]

\* the CleanResult the dry-run branch of clean() returns
DryRunResult(result) ==
    [removedSelectors |-> result.unusedSelectors,
     bytesSaved |-> result.potentialSavings,
     modifiedFiles |-> <<>>, backupFiles |-> <<>>]

\* analyze(), called on its own
Analyze ==
    /\ pc = "idle"
    /\ LET rules == parseCSSFiles(cssFiles, files)
           used  == scanSourceDirectories(sourceFiles)
       IN  /\ cssRules' = rules
           /\ usedClasses' = used
           /\ IF analyzeUsageRaises(rules, used)
              THEN analysisResult' = NoAnalysis /\ raised' = "SyntaxError"
              ELSE analysisResult' = analyze(files) /\ raised' = "none"
    /\ ioLog' = AnalysisReads
    /\ UNCHANGED <<options, scanVars>>
    /\ UNCHANGED <<files, input, before, backups, cssFiles, whitelist, blacklist,
                   dryRun, unusedByFile, idx, cleanResult, pc, runs,
                   sourceFiles, sourceClasses, faults>>

\* clean() up to its per-file loop: the analysis (which may reject), the
\* dry-run return, the grouping of the unused selectors by file
CleanStart ==
    /\ pc = "idle"
    /\ runs < MaxRuns
    /\ LET rules  == parseCSSFiles(cssFiles, files)
           used   == scanSourceDirectories(sourceFiles)
           result == analyze(files)
       IN  /\ cssRules' = rules
           /\ usedClasses' = used
           /\ before' = files
           /\ IF analyzeUsageRaises(rules, used)
              THEN /\ analysisResult' = NoAnalysis
                   /\ raised' = "SyntaxError"
                   /\ cleanResult' = NoClean
                   /\ unusedByFile' = <<>>
                   /\ idx' = 0
                   /\ pc' = "idle"
                   /\ runs' = runs + 1
              ELSE IF dryRun
              THEN /\ analysisResult' = result
                   /\ raised' = "none"
                   /\ cleanResult' = DryRunResult(result)
                   /\ unusedByFile' = <<>>
                   /\ idx' = 0
                   /\ pc' = "idle"
                   /\ runs' = runs + 1
              ELSE /\ analysisResult' = result
                   /\ raised' = "none"
                   /\ cleanResult' = [removedSelectors |-> result.unusedSelectors,
                                      bytesSaved |-> 0,
                                      modifiedFiles |-> <<>>, backupFiles |-> <<>>]
                   /\ unusedByFile' = GroupByFile(result.unusedSelectors)
                   /\ idx' = 1
                   /\ pc' = "loop"
                   /\ runs' = runs
    /\ ioLog' = AnalysisReads
    /\ UNCHANGED <<options, scanVars>>
    /\ UNCHANGED <<files, input, backups, cssFiles, whitelist, blacklist, dryRun,
                   sourceFiles, sourceClasses, faults>>

\* mutant: the loop body writes no backup before the removal
CleanBackup_NoBackup ==
    /\ pc = "loop"
    /\ idx <= Len(unusedByFile)
    /\ ioLog' = Append(ioLog, IoCall("read", unusedByFile[idx].file, TRUE))
    /\ pc' = "rewrite"
    /\ UNCHANGED <<options, scanVars>>
    /\ UNCHANGED <<files, input, before, backups, cssFiles, whitelist, blacklist,
                   dryRun, usedClasses, cssRules, analysisResult, unusedByFile,
                   idx, cleanResult, runs, sourceFiles, sourceClasses, faults,
                   raised>>

\* the loop body up to the backup: the file is read and its backup written;
\* when either call raises the catch block logs and the loop moves on
CleanBackup ==
    /\ pc = "loop"
    /\ idx <= Len(unusedByFile)
    /\ LET filePath == unusedByFile[idx].file
           backupPath == [backupOf |-> filePath, stamp |-> Len(backups) + 1]
       IN  IF <<"cleanRead", filePath>> \in faults
           THEN /\ ioLog' = Append(ioLog, IoCall("read", filePath, FALSE))
                /\ idx' = idx + 1
                /\ pc' = "loop"
                /\ UNCHANGED <<backups, cleanResult>>
           ELSE IF <<"backupWrite", filePath>> \in faults
           THEN /\ ioLog' = ioLog \o <<IoCall("read", filePath, TRUE),
                                        IoCall("backup", filePath, FALSE)>>
                /\ idx' = idx + 1
                /\ pc' = "loop"
                /\ UNCHANGED <<backups, cleanResult>>
           ELSE /\ ioLog' = ioLog \o <<IoCall("read", filePath, TRUE),
                                        IoCall("backup", filePath, TRUE)>>
                /\ backups' = Append(backups, [path |-> backupPath,
                                               content |-> files[filePath]])
                /\ cleanResult' =
                      [cleanResult EXCEPT !.backupFiles = Append(@, backupPath)]
                /\ idx' = idx
                /\ pc' = "rewrite"
    /\ UNCHANGED <<options, scanVars>>
    /\ UNCHANGED <<files, input, before, cssFiles, whitelist, blacklist, dryRun,
                   usedClasses, cssRules, analysisResult, unusedByFile, runs,
                   sourceFiles, sourceClasses, faults, raised>>

\* the rest of the loop body: the removal, and the write when the text
\* changed; a write that raises is logged by the catch block
CleanRewrite ==
    /\ pc = "rewrite"
    /\ LET filePath == unusedByFile[idx].file
           originalContent == files[filePath]
           cleanedContent ==
               removeUnusedSelectors(originalContent, unusedByFile[idx].selectors)
           fileSaved == ByteLength(originalContent) - ByteLength(cleanedContent)
       IN  IF cleanedContent = originalContent
           THEN UNCHANGED <<files, cleanResult, ioLog>>
           ELSE IF <<"fileWrite", filePath>> \in faults
           THEN /\ \E left \in FailedWriteOutcomes(originalContent, cleanedContent) :
                      files' = [files EXCEPT ![filePath] = left]
                /\ ioLog' = Append(ioLog, IoCall("write", filePath, FALSE))
                /\ UNCHANGED cleanResult
           ELSE /\ files' = [files EXCEPT ![filePath] = cleanedContent]
                /\ ioLog' = Append(ioLog, IoCall("write", filePath, TRUE))
                /\ cleanResult' = [cleanResult EXCEPT
                                     !.modifiedFiles = Append(@, filePath),
                                     !.bytesSaved = @ + fileSaved]
    /\ idx' = idx + 1
    /\ pc' = "loop"
    /\ UNCHANGED <<options, scanVars>>
    /\ UNCHANGED <<input, before, backups, cssFiles, whitelist, blacklist, dryRun,
                   usedClasses, cssRules, analysisResult, unusedByFile, runs,
                   sourceFiles, sourceClasses, faults, raised>>

\* the loop is over: clean() returns its CleanResult
CleanReturn ==
    /\ pc = "loop"
    /\ idx > Len(unusedByFile)
    /\ pc' = "idle"
    /\ runs' = runs + 1
    /\ UNCHANGED <<options, scanVars>>
    /\ UNCHANGED <<files, input, before, backups, cssFiles, whitelist, blacklist,
                   dryRun, usedClasses, cssRules, analysisResult, unusedByFile, idx,
                   cleanResult, sourceFiles, sourceClasses, faults, raised, ioLog>>

Next == Analyze \/ CleanStart \/ CleanBackup \/ CleanRewrite \/ CleanReturn

Spec == Init /\ [][Next]_vars

-----------------------------------------------------------------------------
(* The classifier on its own: analyze() over stylesheets of one rule whose *)
(* selector, and the pattern lists, range over the shapes the policy tells *)
(* apart.                                                                  *)

ClassifySelectors ==
    {ClassA, ClassB,
     <<".", "a", ".", "b">>,
     <<"a", ":", "h", "o", "v", "e", "r">>,
     <<".", "b", ":", "h", "o", "v", "e", "r">>,
     <<".", "b", "[", "x", "]">>,
     <<"*">>,
     <<"d", "i", "v">>,
     <<"p">>,
     <<"h", "1">>,
     <<"h", "t", "m", "l">>,
     <<".", "t", "b", "o", "d", "y">>,
     <<"#", "i">>}

ClassifyWhitelists ==
    {<<>>, <<ClassA>>, <<<<"/", "^", "\\", ".", "b", "/">>>>, <<<<"h">>>>}

ClassifyBlacklists ==
    {<<>>, <<ClassA>>, <<<<"/", "r", "$", "/">>>>, <<<<"/", ".", "/">>>>}

InitClassify ==
    /\ \E x \in ClassifySelectors :
          files = [f \in {CssPath} |-> RuleText(<<x>>, DeclRed, FALSE)]
    /\ input = files
    /\ before = files
    /\ backups = <<>>
    /\ cssFiles = <<CssPath>>
    /\ whitelist \in ClassifyWhitelists
    /\ blacklist \in ClassifyBlacklists
    /\ dryRun = TRUE
    /\ usedClasses = {}
    /\ cssRules = <<>>
    /\ analysisResult = NoAnalysis
    /\ unusedByFile = <<>>
    /\ idx = 0
    /\ cleanResult = NoClean
    /\ pc = "idle"
    /\ runs = 0
    /\ sourceFiles = <<SourcePath>>
    /\ sourceClasses \in [{SourcePath} -> SUBSET TokenPool]
    /\ faults = {}
    /\ raised = "none"
    /\ ioLog = <<>>
    /\ options = NoOptions
    /\ ScannerInit

NextClassify == Analyze

SpecClassify == InitClassify /\ [][NextClassify]_vars

-----------------------------------------------------------------------------
(* A batch: two stylesheets and two source files, with at most one call of *)
(* the file system or of the parser that raises.                           *)

BatchCssFiles == <<"a.css", "b.css">>
BatchSourceFiles == <<"x.js", "y.js">>

\* `.a{c:r}`, `.b { c:r; }`, `@media print{.a{c:r}}`, and a sheet whose
\* second node is an @media block without a condition: `.b{c:r}@media{.a{c:r}}`
BatchSheets ==
    {RuleText(<<ClassA>>, DeclRed, FALSE),
     RuleText(<<ClassB>>, DeclRed, TRUE),
     NodeText([kind |-> "media", selectors |-> <<ClassA>>], DeclRed, FALSE),
     RuleText(<<ClassB>>, DeclRed, FALSE)
         \o BlockText(<<"@">> \o MEDIA, RuleText(<<ClassA>>, DeclRed, FALSE), FALSE)}

\* the calls that can raise
FaultPool ==
    ({"parseRead", "parse", "cleanRead", "backupWrite", "fileWrite"}
        \X Range(BatchCssFiles))
    \cup ({"scanRead"} \X Range(BatchSourceFiles))

FaultSets == {{}} \cup {{x} : x \in FaultPool}

InitBatch ==
    /\ files \in [Range(BatchCssFiles) -> BatchSheets]
    /\ input = files
    /\ before = files
    /\ backups = <<>>
    /\ cssFiles = BatchCssFiles
    /\ whitelist = <<>>
    /\ blacklist = <<>>
    /\ dryRun \in BOOLEAN
    /\ usedClasses = {}
    /\ cssRules = <<>>
    /\ analysisResult = NoAnalysis
    /\ unusedByFile = <<>>
    /\ idx = 0
    /\ cleanResult = NoClean
    /\ pc = "idle"
    /\ runs = 0
    /\ sourceFiles = BatchSourceFiles
    /\ \E x \in {{}, {<<"a">>}}, y \in {{}, {<<"b">>}} :
          sourceClasses = [p \in Range(BatchSourceFiles) |->
                              IF p = BatchSourceFiles[1] THEN x ELSE y]
    /\ faults \in FaultSets
    /\ raised = "none"
    /\ ioLog = <<>>
    /\ options = NoOptions
    /\ ScannerInit

SpecBatch == InitBatch /\ [][Next]_vars

-----------------------------------------------------------------------------
(* Pattern lists that hold a /.../ entry which is no regular expression.   *)

Malformed == {<<"/", "(", "/">>, <<"/", "[", "a", "/">>}

PatternSheets ==
    {RuleText(<<ClassA>>, DeclRed, FALSE),
     RuleText(<<ClassA>>, DeclRed, FALSE) \o RuleText(<<ClassB>>, DeclBlue, FALSE)}

PatternWhitelists ==
    {<<>>, <<<<"/", "(", "/">>>>, <<ClassA, <<"/", "(", "/">>>>}

PatternBlacklists ==
    {<<>>, <<<<"/", "[", "a", "/">>>>}

InitPatterns ==
    /\ files \in [{CssPath} -> PatternSheets]
    /\ input = files
    /\ before = files
    /\ backups = <<>>
    /\ cssFiles = <<CssPath>>
    /\ whitelist \in PatternWhitelists
    /\ blacklist \in PatternBlacklists
    /\ dryRun \in BOOLEAN
    /\ usedClasses = {}
    /\ cssRules = <<>>
    /\ analysisResult = NoAnalysis
    /\ unusedByFile = <<>>
    /\ idx = 0
    /\ cleanResult = NoClean
    /\ pc = "idle"
    /\ runs = 0
    /\ sourceFiles = <<SourcePath>>
    /\ sourceClasses \in [{SourcePath} -> SUBSET TokenPool]
    /\ faults = {}
    /\ raised = "none"
    /\ ioLog = <<>>
    /\ options = NoOptions
    /\ ScannerInit

SpecPatterns == InitPatterns /\ [][Next]_vars

-----------------------------------------------------------------------------
(* The scanner as a state machine: scanSourceDirectories() reads the files *)
(* one after another, and extractClassesFromFile() runs its passes, each a *)
(* while loop around exec() for each of its patterns.                      *)

\* content.match(/<tag[^>]*>([\s\S]*?)<\/tag>/i) of extractVueClasses
templateMatch ==
    Only({exec(re, fileInfo.content, 0) :
             re \in {SectionPattern(<<"t", "e", "m", "p", "l", "a", "t", "e">>)}})
scriptMatch ==
    Only({exec(re, fileInfo.content, 0) :
             re \in {SectionPattern(<<"s", "c", "r", "i", "p", "t">>)}})

\* the patterns the running pass loops over
PassPatterns ==
    CASE scanPc \in {"static", "vueTemplate", "vueScript"} -> StaticPatterns
      [] scanPc = "dynamic" -> dynamicPatterns
      [] scanPc = "jsx" -> JSXPatterns
      [] scanPc = "html" -> HTMLPatterns
      [] OTHER -> <<>>

\* the text the running pass scans
PassText ==
    CASE scanPc = "vueTemplate" -> templateMatch.group
      [] scanPc = "vueScript" -> scriptMatch.group
      [] OTHER -> fileInfo.content

\* what one match of the running pass adds
PassTokens(classString) ==
    IF scanPc = "dynamic" THEN DynamicTokens(classString)
    ELSE StaticTokens(classString)

\* the pass that follows the running one in extractClassesFromFile
AfterPass ==
    CASE scanPc = "static" -> "dynamic"
      [] scanPc = "dynamic" /\ fileInfo.type = "vue" ->
            IF templateMatch.found THEN "vueTemplate"
            ELSE IF scriptMatch.found THEN "vueScript" ELSE "fileDone"
      [] scanPc = "dynamic" /\ fileInfo.type \in {"jsx", "tsx"} -> "jsx"
      [] scanPc = "dynamic" /\ fileInfo.type = "html" -> "html"
      [] scanPc = "vueTemplate" ->
            IF scriptMatch.found THEN "vueScript" ELSE "fileDone"
      [] OTHER -> "fileDone"

\* the patterns a caller registers: /btn-\w+/ (not global, no group),
\* /(x*)/g (matches the empty string) and /btn-(\w+)/g
CustomPatterns ==
    {RegExp(<<Lit(<<<<"b", "t", "n", "-">>>>), Rep(FALSE, WordChars, 1, FALSE)>>, 0, 0, FALSE, FALSE),
     RegExp(<<Rep(FALSE, {"x"}, 0, FALSE)>>, 1, 1, TRUE, FALSE),
     RegExp(<<Lit(<<<<"b", "t", "n", "-">>>>), Rep(FALSE, WordChars, 1, FALSE)>>, 2, 2, TRUE, FALSE)}

MaxAdded == 1

addDynamicPattern ==
    /\ scanPc = "idle"
    /\ Len(dynamicPatterns) < Len(DefaultDynamicPatterns) + MaxAdded
    /\ \E pattern \in CustomPatterns :
          dynamicPatterns' = Append(dynamicPatterns, pattern)
    /\ UNCHANGED <<scanQueue, fileInfo, scanPc, patternIdx, lastIndex, classes,
                   scanned>>
    /\ UNCHANGED prunerVars

\* the loop of scanSourceDirectories takes the next file: it is read and
\* extractClassesFromFile starts on it with an empty set
ReadSourceFile ==
    /\ scanPc \in {"idle", "files"}
    /\ scanQueue # <<>>
    /\ fileInfo' = [content |-> Head(scanQueue).content,
                    type |-> getFileType(Head(scanQueue).ext)]
    /\ classes' = {}
    /\ scanPc' = "static"
    /\ patternIdx' = 1
    /\ lastIndex' = 0
    /\ UNCHANGED <<dynamicPatterns, scanQueue, scanned>>
    /\ UNCHANGED prunerVars

\* one evaluation of `while ((match = pattern.exec(content)) !== null)`:
\* a match adds the valid tokens of group 1 and the loop goes round; no
\* match ends the loop, and the next pattern or the next pass follows
ExecStep ==
    /\ scanPc \in {"static", "dynamic", "vueTemplate", "vueScript", "jsx", "html"}
    /\ \E pattern \in {PassPatterns[patternIdx]}, content \in {PassText} :
       \E match \in {exec(pattern, content, lastIndex)} :
           IF match.found
           THEN /\ classes' = classes \cup PassTokens(match.group)
                /\ lastIndex' = match.lastIndex
                /\ UNCHANGED <<scanPc, patternIdx>>
           ELSE IF patternIdx < Len(PassPatterns)
           THEN /\ patternIdx' = patternIdx + 1
                /\ lastIndex' = 0
                /\ UNCHANGED <<scanPc, classes>>
           ELSE /\ scanPc' = AfterPass
                /\ patternIdx' = 1
                /\ lastIndex' = 0
                /\ UNCHANGED classes
    /\ UNCHANGED <<dynamicPatterns, scanQueue, fileInfo, scanned>>
    /\ UNCHANGED prunerVars

\* extractClassesFromFile returns: its set is added to usedClasses, and the
\* loop goes to the next file or scanSourceDirectories returns
FileDone ==
    /\ scanPc = "fileDone"
    /\ scanned' = scanned \cup classes
    /\ scanQueue' = Tail(scanQueue)
    /\ scanPc' = IF Tail(scanQueue) = <<>> THEN "returned" ELSE "files"
    /\ UNCHANGED <<dynamicPatterns, fileInfo, patternIdx, lastIndex, classes>>
    /\ UNCHANGED prunerVars

\* the source files of the scan: their extension and content
ScanFilePool ==
    {[ext |-> "js", content |-> <<"c", "l", "a", "s", "s", "=", "\"", "a", " ", "1",
                         "b", "\"", " ", "b", "t", "n", "-", "o", "k">>],
     [ext |-> "jsx", content |-> <<"c", "l", "a", "s", "s", "N", "a", "m", "e", "=",
                         "{", "c", " ", "?", " ", "d", " ", ":", " ", "2",
                         "}">>],
     [ext |-> "vue", content |-> <<"<", "t", "e", "m", "p", "l", "a", "t", "e", ">",
                         "<", "i", " ", "c", "l", "a", "s", "s", "=", "'",
                         "v", "'", "/", ">", "<", "/", "t", "e", "m", "p",
                         "l", "a", "t", "e", ">", "<", "s", "c", "r", "i",
                         "p", "t", ">", "c", "l", "a", "s", "s", "L", "i",
                         "s", "t", ".", "a", "d", "d", "(", "'", "s", " ",
                         "7", "'", ")", "<", "/", "s", "c", "r", "i", "p",
                         "t", ">">>],
     [ext |-> "html", content |-> <<"<", "p", " ", "c", "l", "a", "s", "s", "=", "\"",
                         "h", " ", "9", "\"", ">">>],
     [ext |-> "ts", content |-> <<"c", "s", "s", Tick, "b", "-", "$", "{", "x", "}",
                         " ", "3", "c", Tick>>]}

\* a pruner that is not running, over one empty stylesheet
PrunerIdle ==
    /\ files = [f \in {CssPath} |-> <<>>]
    /\ input = files
    /\ before = files
    /\ backups = <<>>
    /\ cssFiles = <<CssPath>>
    /\ whitelist = <<>>
    /\ blacklist = <<>>
    /\ dryRun = TRUE
    /\ usedClasses = {}
    /\ cssRules = <<>>
    /\ analysisResult = NoAnalysis
    /\ unusedByFile = <<>>
    /\ idx = 0
    /\ cleanResult = NoClean
    /\ pc = "idle"
    /\ runs = 0
    /\ sourceFiles = <<SourcePath>>
    /\ sourceClasses = [p \in {SourcePath} |-> {}]
    /\ faults = {}
    /\ raised = "none"
    /\ ioLog = <<>>
    /\ options = NoOptions

InitScan ==
    /\ PrunerIdle
    /\ dynamicPatterns = DefaultDynamicPatterns
    /\ scanQueue \in {<<f>> : f \in ScanFilePool}
                        \cup {<<f, g>> : f \in ScanFilePool, g \in ScanFilePool}
    /\ fileInfo = NoFile
    /\ scanPc = "idle"
    /\ patternIdx = 0
    /\ lastIndex = 0
    /\ classes = {}
    /\ scanned = {}

NextScan == addDynamicPattern \/ ReadSourceFile \/ ExecStep \/ FileDone

SpecScan == InitScan /\ [][NextScan]_vars

\* the scan is one asynchronous function that the event loop keeps running:
\* a step of it that is possible is eventually taken
SpecScanLive ==
    InitScan /\ [][NextScan]_vars /\ WF_vars(ReadSourceFile \/ ExecStep \/ FileDone)




-----------------------------------------------------------------------------
(* Two stylesheets whose unused records differ in size, under each report  *)
(* format.                                                                 *)

ReportFormats == {"console", "json", "html"}

\* `.a{c:r}`, `.b{c:r}`, `.a.b{c:r}` and `.w{c:r}.b{c:b}`
OrderSheets ==
    {RuleText(<<ClassA>>, DeclRed, FALSE),
     RuleText(<<ClassB>>, DeclRed, FALSE),
     RuleText(<<ClassA \o ClassB>>, DeclRed, FALSE),
     RuleText(<<ClassW>>, DeclRed, FALSE) \o RuleText(<<ClassB>>, DeclBlue, FALSE)}

InitOrder ==
    /\ files \in [Range(BatchCssFiles) -> OrderSheets]
    /\ input = files
    /\ before = files
    /\ backups = <<>>
    /\ cssFiles = BatchCssFiles
    /\ whitelist = <<>>
    /\ blacklist = <<>>
    /\ dryRun \in BOOLEAN
    /\ usedClasses = {}
    /\ cssRules = <<>>
    /\ analysisResult = NoAnalysis
    /\ unusedByFile = <<>>
    /\ idx = 0
    /\ cleanResult = NoClean
    /\ pc = "idle"
    /\ runs = 0
    /\ sourceFiles = <<SourcePath>>
    /\ sourceClasses \in [{SourcePath} -> SUBSET TokenPool]
    /\ faults = {}
    /\ raised = "none"
    /\ ioLog = <<>>
    /\ \E f \in ReportFormats : options = [NoOptions EXCEPT !.reportFormat = f]
    /\ ScannerInit

SpecOrder == InitOrder /\ [][Next]_vars
-----------------------------------------------------------------------------
(* Selector lists: one rule whose list has two or three selectors, so that *)
(* an unused selector can stand first, in the middle or last.              *)

ListTokens == {<<"a">>, <<"b">>, <<"w">>}

\* the lists of two or three different selectors of the pool
ListSelectors ==
    {l \in (SelectorPool \X SelectorPool)
              \cup (SelectorPool \X SelectorPool \X SelectorPool) :
        \A i, j \in DOMAIN l : i # j => l[i] # l[j]}

\* `.a,.b{c:r}` ... and their spaced forms `.a, .b { c:r; }` ...
ListSheets ==
    {RuleText(l, DeclRed, spaced) : l \in ListSelectors, spaced \in BOOLEAN}

InitLists ==
    /\ files \in [{CssPath} -> ListSheets]
    /\ input = files
    /\ before = files
    /\ backups = <<>>
    /\ cssFiles = <<CssPath>>
    /\ whitelist = <<>>
    /\ blacklist = <<>>
    /\ dryRun \in BOOLEAN
    /\ usedClasses = {}
    /\ cssRules = <<>>
    /\ analysisResult = NoAnalysis
    /\ unusedByFile = <<>>
    /\ idx = 0
    /\ cleanResult = NoClean
    /\ pc = "idle"
    /\ runs = 0
    /\ sourceFiles = <<SourcePath>>
    /\ sourceClasses \in [{SourcePath} -> SUBSET ListTokens]
    /\ faults = {}
    /\ raised = "none"
    /\ ioLog = <<>>
    /\ options = NoOptions
    /\ ScannerInit

SpecLists == InitLists /\ [][Next]_vars
-----------------------------------------------------------------------------
(* The programmatic API: analyzeCSSUsage and cleanCSS build the pruner's   *)
(* config from options.config, whose pattern lists hold strings and RegExp *)
(* objects, and then call analyze() or clean().                            *)

StringItem(text) == [type |-> "string", text |-> text]
RegExpItem(source) == [type |-> "RegExp", source |-> source]

\* (item) => typeof item === 'string' ? item : item.source
ConvertItem(item) == IF item.type = "string" THEN item.text ELSE item.source

\* list.map(ConvertItem)
ConvertList(list) == [k \in DOMAIN list |-> ConvertItem(list[k])]

\* `.a{c:r}`, `.b{c:r}`, `.a{c:r}.b{c:b}`
ApiSheets ==
    {RuleText(<<ClassA>>, DeclRed, FALSE),
     RuleText(<<ClassB>>, DeclRed, FALSE),
     RuleText(<<ClassA>>, DeclRed, FALSE) \o RuleText(<<ClassB>>, DeclBlue, FALSE)}

\* [], [/^\.b/], ['.b'], [/b$/], ['/b$/'], [/./]
ApiWhitelists ==
    {<<>>,
     <<RegExpItem(<<"^", "\\", ".", "b">>)>>,
     <<StringItem(ClassB)>>,
     <<RegExpItem(<<"b", "$">>)>>,
     <<StringItem(<<"/", "b", "$", "/">>)>>,
     <<RegExpItem(<<".">>)>>}

\* [], [/a$/]
ApiBlacklists == {<<>>, <<RegExpItem(<<"a", "$">>)>>}

\* the pruner as analyzeCSSUsage / cleanCSS construct it
InitApi ==
    /\ files \in [{CssPath} -> ApiSheets]
    /\ input = files
    /\ before = files
    /\ backups = <<>>
    /\ cssFiles = <<CssPath>>
    /\ \E w \in ApiWhitelists, b \in ApiBlacklists :
          options = [whitelist |-> w, blacklist |-> b, reportFormat |-> "console"]
    /\ whitelist = ConvertList(options.whitelist)
    /\ blacklist = ConvertList(options.blacklist)
    /\ dryRun \in BOOLEAN
    /\ usedClasses = {}
    /\ cssRules = <<>>
    /\ analysisResult = NoAnalysis
    /\ unusedByFile = <<>>
    /\ idx = 0
    /\ cleanResult = NoClean
    /\ pc = "idle"
    /\ runs = 0
    /\ sourceFiles = <<SourcePath>>
    /\ sourceClasses \in [{SourcePath} -> SUBSET TokenPool]
    /\ faults = {}
    /\ raised = "none"
    /\ ioLog = <<>>
    /\ ScannerInit

SpecApi == InitApi /\ [][Next]_vars
-----------------------------------------------------------------------------
(* Properties *)

\* the entries of the last analysis for selector text x
UnusedEntries(x) ==
    {e \in Range(analysisResult.unusedSelectors) : e.selector = x}
UsedEntries(x) ==
    {e \in Range(analysisResult.usedSelectors) : e.selector = x}

\* the selector texts of the extracted records
RecordSelectors == {r.selector : r \in Range(cssRules)}

\* C6: whitelist precedence. A selector that matches a whitelist pattern is
\* never in unusedSelectors, whatever the blacklist says: it is kept, in
\* usedSelectors.
C6_WhitelistPrecedence ==
    \A x \in RecordSelectors :
        isWhitelisted(x) => UnusedEntries(x) = {} /\ UsedEntries(x) # {}

\* a selector matching both lists, with no used token and not special, has
\* been classified: it is kept as whitelisted
C6_Witness ==
    \E x \in RecordSelectors :
        /\ isWhitelisted(x) /\ isBlacklisted(x)
        /\ ~isSelectorUsed(x, usedClasses)
        /\ \E e \in UsedEntries(x) : e.usedIn = <<"whitelist">>

\* C7: blacklist means always remove. A selector that matches a blacklist
\* pattern and no whitelist pattern is in unusedSelectors with the reason
\* Blacklisted, whatever the source scan found.
C7_BlacklistAlwaysRemoves ==
    \A x \in RecordSelectors :
        isBlacklisted(x) /\ ~isWhitelisted(x)
            => /\ UsedEntries(x) = {}
               /\ \E e \in UnusedEntries(x) : e.reason = "Blacklisted"

\* a selector that shows one of the characters of the conservative keep
HasSpecialCharacter(x) ==
    Includes(x, <<":">>) \/ Includes(x, <<"[">>) \/ Includes(x, <<"*">>)

IsElementSelector(x) ==
    /\ Len(x) >= 1
    /\ x[1] \in Lower \cup Upper
    /\ \A k \in DOMAIN x : x[k] \in Lower \cup Upper \cup Digit

\* C9: element selectors are preserved. Every bare element selector is
\* classified Used, whatever the used set, the whitelist and the blacklist.
C9_ElementSelectorsKept ==
    \A x \in RecordSelectors :
        IsElementSelector(x) => UnusedEntries(x) = {} /\ UsedEntries(x) # {}

\* C10: classification policy. The verdict is NotFoundInSource exactly when
\* no class token of the selector is used, the selector is not special, and
\* it matches neither list.
C10_NotFoundIff ==
    \A x \in RecordSelectors :
        (\E e \in UnusedEntries(x) : e.reason = "Not found in source files")
        <=> /\ \A k \in DOMAIN ClassNamesFrom(x, 1) :
                   ClassNamesFrom(x, 1)[k] \notin usedClasses
            /\ ~HasSpecialCharacter(x)
            /\ ~Includes(x, <<"h","t","m","l">>)
            /\ ~Includes(x, <<"b","o","d","y">>)
            /\ ~LettersOnly(x)
            /\ ~isWhitelisted(x)
            /\ ~isBlacklisted(x)

\* a class selector was classified NotFoundInSource while the scan had found
\* other tokens
C10_Witness ==
    \E x \in RecordSelectors :
        /\ ClassNamesFrom(x, 1) # <<>>
        /\ usedClasses # {}
        /\ \E e \in UnusedEntries(x) : e.reason = "Not found in source files"

-----------------------------------------------------------------------------
(* Properties of clean() *)

RECURSIVE AllRuleNodes(_)
\* the Rule nodes of a tree, at any depth
AllRuleNodes(nodes) ==
    IF nodes = <<>> THEN {}
    ELSE (IF Head(nodes).type = "Rule" THEN {Head(nodes)}
          ELSE AllRuleNodes(Head(nodes).children))
         \cup AllRuleNodes(Tail(nodes))

\* the rules of a stylesheet when the last clean() started, and now
InputRules(f) == AllRuleNodes(Parse(before[f]))
OutputRules(f) == AllRuleNodes(Parse(files[f]))

\* a clean() that was no dry run has returned
CleanDone == pc = "idle" /\ runs >= 1 /\ ~dryRun /\ raised = "none"

\* the selector texts of the RemovalPlan of the last clean()
Removed == {e.selector : e \in Range(cleanResult.removedSelectors)}

\* C1: multi-selector split. After clean, for every rule whose selector list
\* mixes kept and unused selectors, each kept selector is still the selector
\* of a rule with the original declarations and no unused selector, and no
\* rule carries one of the unused selectors.
C1_MultiSelectorSplit ==
    CleanDone =>
        \A f \in Range(cssFiles) : \A n \in InputRules(f) :
            LET unused == Range(n.selectors) \cap Removed
                kept   == Range(n.selectors) \ Removed
            IN  unused # {} /\ kept # {} =>
                  /\ \A x \in kept : \E m \in OutputRules(f) :
                        /\ x \in Range(m.selectors)
                        /\ Range(m.selectors) \cap unused = {}
                        /\ m.block = n.block
                  /\ \A x \in unused : \A m \in OutputRules(f) :
                        x \notin Range(m.selectors)

\* the text of a keyframe step: a percentage
IsKeyframeStep(x) ==
    /\ Len(x) >= 2
    /\ x[Len(x)] = "%"
    /\ \A k \in 1..(Len(x) - 1) : x[k] \in Digit

\* C2: keyframe invariant. No record of the extraction and no classified
\* selector of analyze has a keyframe step (0%, 100%) as its selector text.
C2_NoKeyframeStepRecords ==
    /\ \A r \in Range(cssRules) : ~IsKeyframeStep(r.selector)
    /\ \A e \in Range(analysisResult.usedSelectors) : ~IsKeyframeStep(e.selector)
    /\ \A e \in Range(analysisResult.unusedSelectors) : ~IsKeyframeStep(e.selector)

\* C3: idempotence of clean. A clean() that follows a clean() removes no
\* selector and changes no byte of any stylesheet.
C3_CleanIdempotent ==
    CleanDone /\ runs >= 2 =>
        cleanResult.removedSelectors = <<>> /\ files = before

\* C4: no-op clean. When the analysis of a clean() classifies no selector as
\* unused, no stylesheet and no backup is written: modifiedFiles is empty
\* and every stylesheet is byte-identical to what it was.
C4_NoOpClean ==
    runs >= 1 /\ pc = "idle" /\ cleanResult.removedSelectors = <<>> =>
        /\ cleanResult.modifiedFiles = <<>>
        /\ cleanResult.backupFiles = <<>>
        /\ files = before
        /\ (runs = 1 => backups = <<>> /\ files = input)

\* a clean() that was no dry run returned with nothing to remove, on a
\* stylesheet that holds rules and that a rewrite would have changed
C4_Witness ==
    /\ CleanDone
    /\ cleanResult.removedSelectors = <<>>
    /\ cssRules # <<>>
    /\ \E f \in Range(cssFiles) : Generate(Parse(files[f])) # files[f]

\* C5: whitelist means always keep. After clean, every selector of a rule
\* of the stylesheet that matches a whitelist pattern is still the selector
\* of some rule of the stylesheet.
C5_WhitelistAlwaysKept ==
    CleanDone =>
        \A f \in Range(cssFiles) : \A n \in InputRules(f) :
            \A x \in Range(n.selectors) :
                isWhitelisted(x) =>
                    \E m \in OutputRules(f) : x \in Range(m.selectors)

-----------------------------------------------------------------------------
(* Properties of the extraction *)

\* the records describe the stylesheets as they are on disk: an analysis has
\* run and no clean() has
Analysed == pc = "idle" /\ runs = 0 /\ raised = "none" /\ cssRules # <<>>

\* the declaration text of a record: what its block holds between the braces
DeclarationText(r) ==
    IF /\ Len(r.properties) >= 2
       /\ r.properties[1] = "{"
       /\ r.properties[Len(r.properties)] = "}"
    THEN Sub(r.properties, 2, Len(r.properties) - 1)
    ELSE r.properties

\* the stylesheet of two rules `.a{c:r}` and `.b{c:b}`, one per line or not,
\* analysed with only class b found in the sources and no pattern lists
SavingsExample ==
    /\ Analysed
    /\ \E spaced \in BOOLEAN :
          files[CssPath] =
              SheetText(<<[kind |-> "rule", selectors |-> <<ClassA>>],
                          [kind |-> "rule", selectors |-> <<ClassB>>]>>, spaced)
    /\ usedClasses = {<<"b">>}
    /\ whitelist = <<>> /\ blacklist = <<>>

\* C11 (as the code has it): the size of a record is the byte length of its
\* selector text followed by its generated block, the two braces of the
\* block included; potentialSavings is the sum of the sizes of the unused
\* selectors.  For `.a{c:r}` and `.b{c:b}` with only b used it is
\* byteLength(".a" + "{c:r}") = 7.
C11_SizeWithBraces ==
    /\ \A r \in Range(cssRules) :
          r.size = ByteLength(r.selector) + ByteLength(DeclarationText(r)) + 2
    /\ raised = "none" =>
          analysisResult.potentialSavings = SumSizes(analysisResult.unusedSelectors)
    /\ SavingsExample =>
          analysisResult.potentialSavings = ByteLength(ClassA) + ByteLength(DeclRed) + 2

\* the example stylesheet has been analysed: .a is the one unused selector
C11_Witness ==
    /\ SavingsExample
    /\ Len(analysisResult.unusedSelectors) = 1
    /\ analysisResult.unusedSelectors[1].selector = ClassA
    /\ analysisResult.potentialSavings = 7

\* C11 (as stated): exact savings. The size of a record is the byte length
\* of its selector text concatenated with its declaration text, and
\* potentialSavings for the example is byteLength(".a" + "c:r").
C11_ExactSavings ==
    /\ \A r \in Range(cssRules) :
          r.size = ByteLength(r.selector \o DeclarationText(r))
    /\ SavingsExample =>
          analysisResult.potentialSavings = ByteLength(ClassA \o DeclRed)

RECURSIVE RuleOccurrences(_, _)
\* the rules of a tree outside @keyframes blocks, each with the condition of
\* the @media block it lies in (inMedia FALSE for a top-level rule)
RuleOccurrences(nodes, media) ==
    IF nodes = <<>> THEN {}
    ELSE LET n == Head(nodes)
         IN  (IF n.type = "Rule" THEN {[node |-> n, media |-> media]}
              ELSE IF n.name = KEYFRAMES THEN {}
              ELSE IF n.name = MEDIA
              THEN RuleOccurrences(n.children, [inMedia |-> TRUE, query |-> n.prelude])
              ELSE RuleOccurrences(n.children, media))
             \cup RuleOccurrences(Tail(nodes), media)

\* the positions in cssRules of the records of selector x of the rule at
\* offset `at` of stylesheet f
RecordsOf(f, x, at) ==
    {i \in DOMAIN cssRules :
        /\ cssRules[i].file = f
        /\ cssRules[i].selector = x
        /\ cssRules[i].line = LineOf(files[f], at)
        /\ cssRules[i].column = ColumnOf(files[f], at)}

\* C12: one record per selector occurrence. Every selector of every rule,
\* top-level or inside an @media block, has exactly one record; the record
\* of a rule inside an @media block carries the media condition, and there
\* is no further record of it without one.
C12_OneRecordPerSelector ==
    Analysed =>
        \A f \in Range(cssFiles) :
            \A o \in RuleOccurrences(Parse(files[f]),
                                     [inMedia |-> FALSE, query |-> <<>>]) :
                \A k \in DOMAIN o.node.selectors :
                    LET recs == RecordsOf(f, o.node.selectors[k], o.node.at)
                    IN  /\ Cardinality(recs) = 1
                        /\ \A i \in recs :
                              /\ (cssRules[i].kind = "media") = o.media.inMedia
                              /\ cssRules[i].mediaQuery = o.media.query

-----------------------------------------------------------------------------
(* Properties of the removal inside @keyframes blocks *)

RECURSIVE KeyframesNodes(_)
\* the @keyframes at-rules of a tree, at any depth
KeyframesNodes(nodes) ==
    IF nodes = <<>> THEN {}
    ELSE (IF Head(nodes).type = "Atrule" /\ Head(nodes).name = KEYFRAMES
          THEN {Head(nodes)} ELSE {})
         \cup KeyframesNodes(Head(nodes).children)
         \cup KeyframesNodes(Tail(nodes))

\* the steps of an @keyframes block: the selector lists of its rules, in order
Steps(n) == [k \in DOMAIN n.children |-> n.children[k].selectors]

\* C13: keyframe steps are never removed individually. After clean, every
\* @keyframes block of a stylesheet has exactly the steps the block of that
\* name had before, whether or not the block is whitelisted.
C13_KeyframeStepsKept ==
    CleanDone =>
        \A f \in Range(cssFiles) :
            \A m \in KeyframesNodes(Parse(files[f])) :
                \E n \in KeyframesNodes(Parse(before[f])) :
                    n.prelude = m.prelude /\ Steps(n) = Steps(m)

\* the selector texts of the rules of a tree, keyframe steps included
AllSelectors(nodes) == UNION {Range(n.selectors) : n \in AllRuleNodes(nodes)}

\* no rule outside the @keyframes blocks of stylesheet f (as it was when the
\* last clean() started) has a selector the plan names and the whitelist
\* does not protect
NothingToRemoveOutside(f) ==
    \A o \in RuleOccurrences(Parse(before[f]), [inMedia |-> FALSE, query |-> <<>>]) :
        ~hasUnusedSelector(o.node, Removed)

\* C14: preserved keyframes. For a whitelisted @keyframes block the
\* structural walk reaches no deletion inside the block, whatever selectors
\* the plan names; and when nothing else is to be removed, clean leaves a
\* stylesheet whose @keyframes blocks are all whitelisted with every step of
\* every block.
C14_PreservedKeyframes ==
    /\ \A f \in Range(cssFiles) :
          \A n \in KeyframesNodes(Parse(files[f])) :
              shouldPreserve(n) =>
                  \A plan \in SUBSET AllSelectors(Parse(files[f])) :
                      ~walkWithContext(<<n>>, plan, FALSE)
    /\ CleanDone =>
          \A f \in Range(cssFiles) :
              (/\ NothingToRemoveOutside(f)
               /\ \A n \in KeyframesNodes(Parse(before[f])) : shouldPreserve(n))
              => \A n \in KeyframesNodes(Parse(before[f])) :
                    \E m \in KeyframesNodes(Parse(files[f])) :
                        m.prelude = n.prelude /\ Steps(m) = Steps(n)

\* a clean() has run on a stylesheet with a whitelisted @keyframes block
\* whose steps are in the plan, and the block still has its steps
C14_Witness ==
    /\ CleanDone
    /\ \E f \in Range(cssFiles) :
          /\ NothingToRemoveOutside(f)
          /\ \E n \in KeyframesNodes(Parse(before[f])) :
                /\ shouldPreserve(n)
                /\ \E k \in DOMAIN n.children :
                      Range(n.children[k].selectors) \cap Removed # {}
                /\ \E m \in KeyframesNodes(Parse(files[f])) : Steps(m) = Steps(n)

-----------------------------------------------------------------------------
(* Properties of a batch *)

\* a backup file of stylesheet f holding content c has been written
HasBackup(f, c) ==
    \E k \in DOMAIN backups :
        backups[k].path.backupOf = f /\ backups[k].content = c

\* C15: backup before overwrite. In every state of a clean, each stylesheet
\* is byte-identical to what it was when the clean started or has a backup
\* holding that content; the write that overwrites a stylesheet comes after
\* the completed write of its backup; every path of modifiedFiles has an
\* entry in backupFiles.
C15_BackupBeforeOverwrite ==
    /\ \A f \in Range(cssFiles) : files[f] = before[f] \/ HasBackup(f, before[f])
    /\ \A i \in DOMAIN ioLog :
          ioLog[i].op = "write" =>
              \E j \in 1..(i - 1) : ioLog[j] = IoCall("backup", ioLog[i].path, TRUE)
    /\ \A k \in DOMAIN cleanResult.modifiedFiles :
          \E j \in DOMAIN cleanResult.backupFiles :
              cleanResult.backupFiles[j].backupOf = cleanResult.modifiedFiles[k]

\* the batch stands between two stylesheets: the first has been overwritten
\* and the second is still to come
C15_Witness ==
    /\ pc = "loop"
    /\ idx = 2
    /\ Len(unusedByFile) = 2
    /\ files[unusedByFile[1].file] # before[unusedByFile[1].file]
    /\ HasBackup(unusedByFile[1].file, before[unusedByFile[1].file])

\* a call of the per-file loop of the last clean() raised on stylesheet f
FailedInClean(f) ==
    \E i \in DOMAIN ioLog :
        /\ i > Len(cssFiles) + Len(sourceFiles)
        /\ ioLog[i].path = f
        /\ ~ioLog[i].ok

\* the loop of the last clean() read stylesheet f
ReachedInClean(f) ==
    \E i \in DOMAIN ioLog :
        /\ i > Len(cssFiles) + Len(sourceFiles)
        /\ ioLog[i].path = f
        /\ ioLog[i].op = "read"

RECURSIVE SavedIn(_)
\* the bytes by which the listed stylesheets shrank in the last clean()
SavedIn(paths) ==
    IF paths = <<>> THEN 0
    ELSE ByteLength(before[Head(paths)]) - ByteLength(files[Head(paths)])
         + SavedIn(Tail(paths))

\* C16: per-file failure isolation. When reading, backing up or writing a
\* stylesheet raised in a clean, that stylesheet is exactly as it was, it is
\* not in modifiedFiles and adds nothing to bytesSaved, and every other
\* stylesheet of the plan was still processed; clean returned.
C16_FailureIsolation ==
    pc = "idle" /\ runs >= 1 /\ ~dryRun =>
        /\ raised = "none"
        /\ \A f \in Range(cssFiles) :
              FailedInClean(f) =>
                  /\ files[f] = before[f]
                  /\ f \notin Range(cleanResult.modifiedFiles)
                  /\ \A k \in DOMAIN unusedByFile : ReachedInClean(unusedByFile[k].file)
        /\ cleanResult.bytesSaved = SavedIn(cleanResult.modifiedFiles)

\* an analysis has run on the files as they are
AnalysisDone == pc = "idle" /\ runs = 0 /\ ioLog # <<>>

\* reading or parsing stylesheet f fails
CssFails(f) == <<"parseRead", f>> \in faults \/ <<"parse", f>> \in faults

ExtractionRaises(f) ==
    \/ <<"parse", f>> \in faults
    \/ WalkRecords(Parse(files[f]), f, files[f]).raised

\* C18: extraction failure yields zero records. A stylesheet whose parse or
\* walk raises at any point contributes no record at all.
C18_FailureYieldsNoRecords ==
    AnalysisDone =>
        \A f \in Range(cssFiles) :
            ExtractionRaises(f) => \A k \in DOMAIN cssRules : cssRules[k].file # f

\* some entry of the pattern lists is /.../-delimited and no regular expression
HasMalformedPattern ==
    \/ \E k \in DOMAIN whitelist : PatternRaises(whitelist[k])
    \/ \E k \in DOMAIN blacklist : PatternRaises(blacklist[k])

\* C19: a malformed pattern is fatal before I/O. With a malformed entry in
\* a pattern list, no call of analyze or clean reads or writes a file, and
\* a clean that was called has rejected with the error.
C19_MalformedPatternFatalBeforeIO ==
    HasMalformedPattern =>
        /\ ioLog = <<>>
        /\ runs >= 1 => raised = "SyntaxError"

\* C20: a dry run modifies nothing. A clean with dryRun set writes no
\* stylesheet and no backup, returns empty modifiedFiles and backupFiles,
\* and reports the unusedSelectors and the potentialSavings of the analysis.
C20_DryRunModifiesNothing ==
    dryRun /\ runs >= 1 /\ raised = "none" =>
        /\ files = input
        /\ backups = <<>>
        /\ \A i \in DOMAIN ioLog : ioLog[i].op = "read"
        /\ cleanResult.modifiedFiles = <<>>
        /\ cleanResult.backupFiles = <<>>
        /\ cleanResult.removedSelectors = analyze(files).unusedSelectors
        /\ cleanResult.bytesSaved = analyze(files).potentialSavings
        /\ cleanResult.bytesSaved = SumSizes(cleanResult.removedSelectors)

\* a dry-run clean has returned with selectors it would remove
C20_Witness ==
    /\ dryRun
    /\ runs >= 1
    /\ pc = "idle"
    /\ cleanResult.removedSelectors # <<>>
    /\ cleanResult.bytesSaved > 0
    /\ files = input

-----------------------------------------------------------------------------
(* The scanner's results *)

\* the pattern [A-Za-z_-][A-Za-z0-9_-]* as the specification words it: not
\* empty, no leading digit, only letters, digits, hyphen and underscore
ValidToken(t) ==
    /\ t # <<>>
    /\ t[1] \notin Digit
    /\ \A k \in DOMAIN t : t[k] \in Lower \cup Upper \cup Digit \cup {"-", "_"}

\* C21: token validity. Every string in the set of the file being scanned
\* and in the set the scan returns is a valid token, whatever pass and file
\* it came from; and while a file is scanned no pass removes a token that
\* another pass added, nor does a later file remove one from the scan's set.
C21_TokenValidity ==
    /\ [](\A t \in classes \cup scanned : ValidToken(t))
    /\ [][/\ scanPc \notin {"idle", "files"} => classes \subseteq classes'
          /\ scanned \subseteq scanned']_vars

\* a scan of two files has returned `a` from the static pass of one and `c`
\* from the JSX pass of the other, each next to a candidate that is no token
C21_Witness ==
    /\ scanPc = "returned"
    /\ <<"a">> \in scanned
    /\ <<"c">> \in scanned

\* C30: the scan terminates. Whatever the files and the registered dynamic
\* patterns, every match loop ends and scanSourceDirectories returns.
C30_ScanTerminates == <>(scanPc = "returned")

-----------------------------------------------------------------------------
(* The programmatic API *)

\* the RegExp entries of a pattern list given to the API: their positions
RegExpEntries(list) == {k \in DOMAIN list : list[k].type = "RegExp"}

\* C22: RegExp entries work as regular expressions through the API. For
\* every extracted selector, the pattern the pruner holds for a RegExp entry
\* of options.config.whitelist or blacklist matches the selector exactly
\* when the regular expression does; so no selector that a whitelist RegExp
\* matches is reported unused.
C22_RegExpEntriesWork ==
    cssRules # <<>> /\ raised = "none" =>
        \A x \in RecordSelectors :
            /\ \A k \in RegExpEntries(options.whitelist) :
                  /\ PatternMatches(whitelist[k], x)
                        <=> RegexTest(options.whitelist[k].source, x)
                  /\ RegexTest(options.whitelist[k].source, x)
                        => UnusedEntries(x) = {}
            /\ \A k \in RegExpEntries(options.blacklist) :
                  PatternMatches(blacklist[k], x)
                     <=> RegexTest(options.blacklist[k].source, x)

-----------------------------------------------------------------------------
(* The removal strategies *)

\* the selector texts of the RemovalPlan of the last clean() for stylesheet f
PlanOf(f) ==
    {e.selector : e \in {x \in Range(cleanResult.removedSelectors) : x.file = f}}

\* a rule node meets the deletion condition of the structural strategy: one
\* member of its selector list is a plan selector the whitelist does not match
MeetsDeletionCondition(node, plan) ==
    \E k \in DOMAIN node.selectors :
        node.selectors[k] \in plan /\ ~isWhitelisted(node.selectors[k])

RECURSIVE AfterStructuralRemoval(_, _, _)
\* the tree the structural rule leaves: the rule nodes that meet the
\* condition outside preserved @keyframes blocks are gone, all else is kept
AfterStructuralRemoval(nodes, plan, preserved) ==
    IF nodes = <<>> THEN <<>>
    ELSE LET n == Head(nodes)
             rest == AfterStructuralRemoval(Tail(nodes), plan, preserved)
         IN  IF n.type = "Rule"
             THEN IF ~preserved /\ MeetsDeletionCondition(n, plan)
                  THEN rest ELSE <<n>> \o rest
             ELSE <<[n EXCEPT !.children =
                        AfterStructuralRemoval(
                            n.children, plan,
                            preserved \/ (n.name = KEYFRAMES /\ shouldPreserve(n)))]>>
                  \o rest

\* C23: the structural removal rule. After a clean, every stylesheet holds
\* the tree it held when the clean started without the rule nodes that meet
\* the deletion condition outside preserved @keyframes blocks: those are
\* deleted whole, and every other node, nested ones included, is kept.
C23_StructuralRemovalRule ==
    CleanDone =>
        \A f \in DOMAIN files :
            Generate(Parse(files[f]))
                = Generate(AfterStructuralRemoval(Parse(before[f]), PlanOf(f), FALSE))

\* the list s without its member at position p
WithoutMember(s, p) == [k \in 1..(Len(s) - 1) |-> IF k < p THEN s[k] ELSE s[k + 1]]

\* the selector at position p is the only one of the node's list in the plan
OnlyRemoved(n, p, plan) ==
    /\ p \in DOMAIN n.selectors
    /\ Len(n.selectors) >= 2
    /\ \A k \in DOMAIN n.selectors : n.selectors[k] \in plan <=> k = p

\* C24: surgical deletion is position-independent. After the first clean,
\* for every rule with several selectors of which exactly one is removed,
\* at whatever position, the stylesheet holds a rule with the other
\* selectors in their order and the same declaration block.
C24_SurgicalAnyPosition ==
    CleanDone /\ runs = 1 =>
        \A f \in Range(cssFiles) : \A n \in InputRules(f) :
            \A p \in DOMAIN n.selectors :
                OnlyRemoved(n, p, PlanOf(f)) =>
                    \E m \in OutputRules(f) :
                        /\ m.selectors = WithoutMember(n.selectors, p)
                        /\ m.block = n.block

RECURSIVE BraceDepth(_, _, _)
\* the number of braces open after the text from position i on, starting
\* with depth open; -1 when a closing brace has no opening one
BraceDepth(text, i, depth) ==
    IF depth < 0 THEN -1
    ELSE IF i > Len(text) THEN depth
    ELSE BraceDepth(text, i + 1,
                    IF text[i] = "{" THEN depth + 1
                    ELSE IF text[i] = "}" THEN depth - 1 ELSE depth)

\* every brace of the text has its partner
Balanced(text) == BraceDepth(text, 1, 0) = 0

\* the last clean() took the text strategy for stylesheet f: the walk over
\* its tree reached a rule to remove
FallbackRan(f) ==
    /\ PlanOf(f) # {}
    /\ walkWithContext(Parse(before[f]), PlanOf(f), FALSE)

\* C25: the fallback keeps the block structure. After a clean, a stylesheet
\* that went through the text strategy with balanced braces has balanced
\* braces still.
C25_FallbackKeepsBalance ==
    CleanDone =>
        \A f \in Range(cssFiles) :
            FallbackRan(f) /\ Balanced(before[f]) => Balanced(files[f])

-----------------------------------------------------------------------------
(* The order of the batch *)

\* the place of stylesheet f in config.cssFiles
PathIndex(f) == CHOOSE k \in DOMAIN cssFiles : cssFiles[k] = f

\* the calls of the per-file loop of the last clean()
LoopCalls == {i \in DOMAIN ioLog : i > Len(cssFiles) + Len(sourceFiles)}

\* C26: enumeration order. Under every report format clean() reads, backs up
\* and rewrites the stylesheets in the order of config.cssFiles: no call on a
\* stylesheet that comes earlier in cssFiles follows a call on one that
\* comes later.
C26_EnumerationOrder ==
    \A i, j \in LoopCalls :
        i < j => PathIndex(ioLog[i].path) <= PathIndex(ioLog[j].path)

-----------------------------------------------------------------------------
(* The partition of the rule records *)

\* how many records of the list seq carry selector text sel in file f
CountOf(seq, sel, f) ==
    Cardinality({k \in DOMAIN seq : seq[k].selector = sel /\ seq[k].file = f})

\* an analysis has returned a result for the rules in cssRules
AnalysisReturned == ioLog # <<>> /\ raised = "none" /\ analysisResult # NoAnalysis

\* C27: partition of rules. When analyze returns, every extracted record is
\* in exactly one of usedSelectors and unusedSelectors, the two counts of
\* stats add up to stats.totalSelectors, and no selector text appears in
\* both lists.
C27_PartitionOfRules ==
    AnalysisReturned =>
        /\ analysisResult.stats.totalSelectors = Len(cssRules)
        /\ analysisResult.stats.usedSelectors = Len(analysisResult.usedSelectors)
        /\ analysisResult.stats.unusedSelectors = Len(analysisResult.unusedSelectors)
        /\ analysisResult.stats.totalSelectors =
              analysisResult.stats.usedSelectors + analysisResult.stats.unusedSelectors
        /\ \A k \in DOMAIN cssRules :
              CountOf(cssRules, cssRules[k].selector, cssRules[k].file) =
                  CountOf(analysisResult.usedSelectors,
                          cssRules[k].selector, cssRules[k].file)
                  + CountOf(analysisResult.unusedSelectors,
                            cssRules[k].selector, cssRules[k].file)
        /\ \A i \in DOMAIN analysisResult.usedSelectors :
              \A j \in DOMAIN analysisResult.unusedSelectors :
                  analysisResult.usedSelectors[i].selector
                      # analysisResult.unusedSelectors[j].selector

\* an analysis has returned with records in both lists, two of the records
\* carrying the same selector text, and one kept by the whitelist
C27_Witness ==
    /\ AnalysisReturned
    /\ analysisResult.usedSelectors # <<>>
    /\ analysisResult.unusedSelectors # <<>>
    /\ \E i, j \in DOMAIN cssRules : i # j /\ cssRules[i].selector = cssRules[j].selector
    /\ \E i \in DOMAIN analysisResult.usedSelectors :
          analysisResult.usedSelectors[i].usedIn = <<"whitelist">>

-----------------------------------------------------------------------------
(* The classification against a larger scan result *)

\* tokens a larger scan result may add
MoreTokens == TokenPool \cup {<<"w">>, <<"t", "b", "o", "d", "y">>}

\* analyzeUsage pushes the selector to usedSelectors
Kept(selector, used) == Verdict(selector, used) \in {"Used", "Whitelisted"}

\* C28: classification is monotone in the used token set. With the rules
\* and the pattern lists fixed, a selector kept under the scan result is
\* kept under every larger one, and the unused records of a larger scan
\* result are among those of the smaller one.
C28_MonotoneInUsed ==
    AnalysisReturned =>
        \A more \in SUBSET MoreTokens :
            /\ ~analyzeUsageRaises(cssRules, usedClasses \cup more)
            /\ \A k \in DOMAIN cssRules :
                  Kept(cssRules[k].selector, usedClasses)
                      => Kept(cssRules[k].selector, usedClasses \cup more)
            /\ Range(analyzeUsage(cssRules, usedClasses \cup more).unusedSelectors)
                  \subseteq Range(analysisResult.unusedSelectors)

\* an analysis has returned an unused selector that a larger scan result
\* keeps, next to the scan result not being empty
C28_Witness ==
    /\ AnalysisReturned
    /\ usedClasses # {}
    /\ \E k \in DOMAIN cssRules, more \in SUBSET MoreTokens :
          /\ ~Kept(cssRules[k].selector, usedClasses)
          /\ Kept(cssRules[k].selector, usedClasses \cup more)

-----------------------------------------------------------------------------
(* A removal pass that deletes nothing *)

\* the walk over the stylesheet at hand ends without reaching a removal: its
\* plan names no rule outside a preserved @keyframes block
WalkDeletesNothing ==
    /\ pc = "rewrite"
    /\ ~walkWithContext(Parse(files[unusedByFile[idx].file]),
                        {unusedByFile[idx].selectors[k].selector :
                            k \in DOMAIN unusedByFile[idx].selectors},
                        FALSE)

\* C29: no removal, no rewrite. When the removal pass deletes no rule from
\* a stylesheet, clean leaves its bytes as they are, does not list it in
\* modifiedFiles and adds nothing to bytesSaved.
C29_NoRemovalNoRewrite ==
    [][WalkDeletesNothing =>
          /\ files' = files
          /\ cleanResult'.modifiedFiles = cleanResult.modifiedFiles
          /\ cleanResult'.bytesSaved = cleanResult.bytesSaved]_vars

====
